---------------------------- MODULE Spec2Model ----------------------------
(***************************************************************************)
(* A model of codex_sessions.py: the transcript parser                     *)
(* (parse_codex_session_file), the incremental indexer (index_sessions)    *)
(* and the query builder (build_prefix_query).                             *)
(*                                                                         *)
(* Text.  A Python str is a sequence of tokens.  A token is a word (or a   *)
(* punctuation mark) taken as one unit, or a whitespace token " " or "\n". *)
(* str.strip(), str.join() and the `in` test on strings are computed on    *)
(* token sequences.                                                        *)
(*                                                                         *)
(* JSON values.  A field whose text flows into the document (name,         *)
(* arguments, input, output, text, cmd) is a token sequence, or one of the *)
(* two values T_ABSENT (no such key) and T_NONSTR (a value that is not a   *)
(* str).  A field that is only compared (type, role, id, call_id, cwd,     *)
(* cli_version, timestamp) is a TLA+ string, or A_ABSENT or A_NONSTR.      *)
(***************************************************************************)
EXTENDS Integers, Sequences, FiniteSets, TLC

VARIABLES
  \* parse_codex_session_file, one call
  lines,      \* the lines of the file being parsed
  openable,   \* what path.open() does: "ok", "missing" or "denied"
  pc,         \* where the call is: "open", "loop" or "done"
  mtime,      \* int(path.stat().st_mtime) of that file
  pos,        \* number of lines consumed by the `for line in f` loop
  ps,         \* the locals of the call
  out,        \* what the call produced
  \* index_sessions, its runs over a directory of log files and an index store
  fs,         \* the log files: path -> file, or NoFile
  running_version, \* PARSER_VERSION of the installed program
  committed,  \* the store as committed
  tx,         \* the store as the run's connection sees it, uncommitted writes included
  ipc,        \* "idle", "running", "done", "raised" (an exception left the call) or "killed"
  ix,         \* the locals of the run: force, force_reindex, files, i, changed
  parsed,     \* the paths the run handed to parse_codex_session_file
  vanished,   \* the paths whose stat() raised FileNotFoundError in the run
  dirty,      \* the paths written since the last run that finished
  nruns,      \* runs started
  nedits,     \* writes by the environment (files, annotations)
  \* build_prefix_query, one call
  user_query, \* the argument, a sequence of characters
  qpc,        \* "call" or "return"
  built,      \* the returned query, a sequence of characters
  \* one call of a function without state of its own
  cargs,      \* the arguments
  cpc,        \* "call" or "return"
  ret,        \* what the call returned
  \* a debounce object and the clock
  deb,        \* the object: delay, pending, the time of the last mark
  clock,      \* the time, in hundredths of a second
  marked,     \* the time of the most recent mark since the last clear, or None
  \* the live browser, _run_curses_live._ui
  ui,         \* the locals of _ui
  bret,       \* "running", or what _ui returned or raised
  nkeys       \* input events read

parseVars == <<lines, openable, mtime, pc, pos, ps, out>>
indexVars == <<fs, running_version, committed, tx, ipc, ix, parsed, vanished, dirty, nruns, nedits>>
queryVars == <<user_query, qpc, built>>
callVars == <<cargs, cpc, ret>>
debounceVars == <<deb, clock, marked>>
browserVars == <<ui, bret, nkeys>>
vars == <<lines, openable, mtime, pc, pos, ps, out,
          fs, running_version, committed, tx, ipc, ix, parsed, vanished, dirty, nruns, nedits,
          user_query, qpc, built, cargs, cpc, ret, deb, clock, marked, ui, bret, nkeys>>

\* the variables an action of one part of the program leaves alone
NotParse == <<indexVars, queryVars, callVars, debounceVars, browserVars>>
NotIndex == <<parseVars, queryVars, callVars, debounceVars, browserVars>>
NotQuery == <<parseVars, indexVars, callVars, debounceVars, browserVars>>
NotCall == <<parseVars, indexVars, queryVars, debounceVars, browserVars>>
NotDebounce == <<parseVars, indexVars, queryVars, callVars, browserVars>>
NotBrowser == <<parseVars, indexVars, queryVars, callVars, debounceVars>>

---------------------------------------------------------------------------
(* Bounds of the model. *)

MaxLines == 3

---------------------------------------------------------------------------
(* Python values. *)

\* Optional[int]: None
None == -1
\* Optional[str] session_id: None
NoneStr == "<None>"

A_ABSENT == "<absent>"
A_NONSTR == "<nonstr>"
T_ABSENT == <<"<absent>">>
T_NONSTR == <<"<nonstr>">>

\* isinstance(v, str)
IsStrA(v) == v \notin {A_ABSENT, A_NONSTR}
IsStrT(v) == v \notin {T_ABSENT, T_NONSTR}

Max(a, b) == IF a >= b THEN a ELSE b

Whitespace == {" ", "\n"}

RECURSIVE LStrip(_)
LStrip(s) ==
  IF s = <<>> THEN <<>>
  ELSE IF Head(s) \in Whitespace THEN LStrip(Tail(s)) ELSE s

RECURSIVE RStrip(_)
RStrip(s) ==
  IF s = <<>> THEN <<>>
  ELSE IF s[Len(s)] \in Whitespace THEN RStrip(SubSeq(s, 1, Len(s) - 1)) ELSE s

\* str.strip()
Strip(s) == RStrip(LStrip(s))

\* sep.join(parts)
RECURSIVE Join(_, _)
Join(parts, sep) ==
  IF parts = <<>> THEN <<>>
  ELSE IF Len(parts) = 1 THEN parts[1]
  ELSE parts[1] \o sep \o Join(Tail(parts), sep)

\* t in s, for strings
Contains(s, t) ==
  \E i \in 0..(Len(s) - Len(t)) : SubSeq(s, i + 1, i + Len(t)) = t

---------------------------------------------------------------------------
(* Timestamps.  An ISO-8601 string is one of the atoms below; "t1Z" is the *)
(* Z-suffixed spelling of "t1".                                            *)

Times == {0, 1, 2}

_epoch_seconds_from_iso(iso_ts) ==
  LET s == IF iso_ts = "t1Z" THEN "t1" ELSE iso_ts
  IN CASE s = "t0" -> 0
       [] s = "t1" -> 1
       [] s = "t2" -> 2
       [] OTHER -> None

---------------------------------------------------------------------------
(* A str that may hold a JSON object: json.dumps and json.loads over the   *)
(* objects with the two keys the parser reads, cmd and output.             *)

JsonTexts == {<<>>, <<" ">>, <<"ls">>, <<" ", "ls", " ">>, <<"ok", "\n">>}
JsonValues == JsonTexts \cup {T_ABSENT, T_NONSTR}
JsonDicts == [cmd : JsonValues, output : JsonValues]

DumpsField(key, v) ==
  IF v = T_ABSENT THEN <<>>
  ELSE <<key, ":">> \o (IF v = T_NONSTR THEN <<"0">> ELSE <<"'">> \o v \o <<"'">>) \o <<",">>

\* json.dumps(d)
Dumps(d) == <<"{">> \o DumpsField("cmd", d.cmd) \o DumpsField("output", d.output) \o <<"}">>

\* Optional[dict] as a set: {} is None, {d} is the dict d
_maybe_parse_json_dict(s) ==
  IF ~IsStrT(s) THEN {} ELSE {d \in JsonDicts : Dumps(d) = s}

\* bool(d) of a dict: it has a key
DictTruthy(d) == d.cmd # T_ABSENT \/ d.output # T_ABSENT

---------------------------------------------------------------------------
(* Log lines. *)

NoContent == [kind |-> "absent", items |-> <<>>]
NoPayload ==
  [type |-> A_ABSENT, id |-> A_ABSENT, timestamp |-> A_ABSENT, cwd |-> A_ABSENT,
   cli_version |-> A_ABSENT, role |-> A_ABSENT, content |-> NoContent,
   name |-> T_ABSENT, call_id |-> A_ABSENT, arguments |-> T_ABSENT,
   input |-> T_ABSENT, output |-> T_ABSENT]

\* kind: "blank" (empty after strip), "corrupt" (json.loads raises),
\* "scalar" (JSON, but no object) or "object"
Line(kind) == [kind |-> kind, timestamp |-> A_ABSENT, type |-> A_ABSENT, payload |-> NoPayload]
Obj(ts, typ, payload) == [kind |-> "object", timestamp |-> ts, type |-> typ, payload |-> payload]

Item(t, text) == [type |-> t, text |-> text, output |-> T_ABSENT]
Msg(ts, role, items) ==
  Obj(ts, "response_item",
      [NoPayload EXCEPT !.type = "message", !.role = role,
                        !.content = [kind |-> "list", items |-> items]])
Meta(ts, id, pts, cwd, ver) ==
  Obj(ts, "session_meta",
      [NoPayload EXCEPT !.id = id, !.timestamp = pts, !.cwd = cwd, !.cli_version = ver])
FunctionCall(name, call_id, arguments) ==
  Obj("t1", "response_item",
      [NoPayload EXCEPT !.type = "function_call", !.name = name, !.call_id = call_id,
                        !.arguments = arguments])
FunctionCallOutput(call_id, output) ==
  Obj("t1", "response_item",
      [NoPayload EXCEPT !.type = "function_call_output", !.call_id = call_id,
                        !.output = output])
CustomToolCall(name, call_id, input) ==
  Obj("t1", "response_item",
      [NoPayload EXCEPT !.type = "custom_tool_call", !.name = name, !.call_id = call_id,
                        !.input = input])
CustomToolCallOutput(call_id, output) ==
  Obj("t1", "response_item",
      [NoPayload EXCEPT !.type = "custom_tool_call_output", !.call_id = call_id,
                        !.output = output])

---------------------------------------------------------------------------
(* Messages. *)

\* the characters of a token of the message vocabulary
TokenChars(tok) ==
  CASE tok = "search_for_foo.py" -> 17
    [] tok = "done_with_it" -> 12
    [] tok = "hi" -> 2
    [] OTHER -> 1

RECURSIVE CharLen(_)
CharLen(s) == IF s = <<>> THEN 0 ELSE TokenChars(Head(s)) + CharLen(Tail(s))

\* s[:n], cut at a token boundary
RECURSIVE Truncate(_, _)
Truncate(s, n) ==
  IF s = <<>> \/ TokenChars(Head(s)) > n THEN <<>>
  ELSE <<Head(s)>> \o Truncate(Tail(s), n - TokenChars(Head(s)))

RECURSIVE ExtractParts(_)
ExtractParts(items) ==
  IF items = <<>> THEN <<>>
  ELSE LET item == Head(items)
           rest == ExtractParts(Tail(items))
           txt == IF item.type \in {"input_text", "output_text"} THEN item.text
                  ELSE IF item.output \notin {T_ABSENT, <<>>} THEN item.output ELSE item.text
       IN IF item.type \in {"input_text", "output_text", "tool_result"}
             /\ IsStrT(txt) /\ Strip(txt) # <<>>
          THEN <<txt>> \o rest
          ELSE rest

_extract_text_from_message_payload(payload) ==
  Strip(Join(ExtractParts(payload.content.items), <<"\n">>))

\* the blocks the three re.sub calls for <environment_context>, <user_instructions>
\* and <instructions> delete, each one token
BoilerplateBlocks == {"<environment_context>", "<user_instructions>", "<instructions>"}

RECURSIVE RemoveBlocks(_)
RemoveBlocks(s) ==
  IF s = <<>> THEN <<>>
  ELSE IF Head(s) \in BoilerplateBlocks THEN RemoveBlocks(Tail(s))
  ELSE <<Head(s)>> \o RemoveBlocks(Tail(s))

\* re.sub(r"^#\s*AGENTS\.md.*$", "", s, MULTILINE): the header token at the start
\* of a line, and the rest of that line
RECURSIVE RemoveAgentsLines(_, _, _)
RemoveAgentsLines(s, atStart, dropping) ==
  IF s = <<>> THEN <<>>
  ELSE IF Head(s) = "\n" THEN <<"\n">> \o RemoveAgentsLines(Tail(s), TRUE, FALSE)
  ELSE IF dropping \/ (atStart /\ Head(s) = "#AGENTS.md")
       THEN RemoveAgentsLines(Tail(s), FALSE, TRUE)
  ELSE <<Head(s)>> \o RemoveAgentsLines(Tail(s), FALSE, FALSE)

\* re.sub(r"\n{3,}", "\n\n", s)
RECURSIVE CollapseNewlines(_, _)
CollapseNewlines(s, run) ==
  IF s = <<>> THEN <<>>
  ELSE IF Head(s) = "\n"
       THEN (IF run >= 2 THEN <<>> ELSE <<"\n">>) \o CollapseNewlines(Tail(s), run + 1)
  ELSE <<Head(s)>> \o CollapseNewlines(Tail(s), 0)

\* "\n".join(line.rstrip() for line in s.splitlines())
RECURSIVE RStripLines(_)
RStripLines(s) ==
  IF s = <<>> THEN <<>>
  ELSE LET rest == RStripLines(Tail(s))
       IN IF Head(s) = " " /\ (rest = <<>> \/ Head(rest) = "\n") THEN rest
          ELSE IF Head(s) = "\n" /\ rest = <<>> THEN <<>>
          ELSE <<Head(s)>> \o rest

_strip_boilerplate(text) ==
  Strip(RStripLines(CollapseNewlines(RemoveAgentsLines(RemoveBlocks(text), TRUE, FALSE), 0)))

---------------------------------------------------------------------------
(* parse_codex_session_file: the locals before the loop, the loop body for *)
(* one line, and the code after the loop.                                  *)

ParseInit ==
  [session_id |-> NoneStr, created_at |-> None, cwd |-> "", cli_version |-> "",
   updated_at |-> None, messages |-> <<>>, tool_name_by_call_id |-> <<>>]

\* tool_name_by_call_id is a sequence of <<call_id, name>>, latest last
RECURSIVE NameOf(_, _)
NameOf(names, call_id) ==
  IF names = <<>> THEN <<>>
  ELSE IF names[Len(names)][1] = call_id THEN names[Len(names)][2]
  ELSE NameOf(SubSeq(names, 1, Len(names) - 1), call_id)

\* d[call_id] = name
SetName(names, call_id, name) ==
  SelectSeq(names, LAMBDA e : e[1] # call_id) \o <<(<<call_id, name>>)>>

\* x if isinstance(x, str) else ""
StrOrEmptyA(v) == IF IsStrA(v) THEN v ELSE ""
StrOrEmptyT(v) == IF IsStrT(v) THEN v ELSE <<>>

Append2(s, role, text) ==
  [s EXCEPT !.messages = Append(@, [role |-> role, text |-> text])]

\* lines 155-159
ConsumeTimestamp(s, obj) ==
  LET t == IF IsStrA(obj.timestamp) THEN _epoch_seconds_from_iso(obj.timestamp) ELSE None
  IN IF t = None THEN s
     ELSE [s EXCEPT !.updated_at = IF @ = None THEN t ELSE Max(@, t)]

\* lines 164-177
ConsumeSessionMeta(s, payload) ==
  LET s1 == IF IsStrA(payload.id) THEN [s EXCEPT !.session_id = payload.id] ELSE s
      s2 == IF IsStrA(payload.timestamp)
            THEN [s1 EXCEPT !.created_at = _epoch_seconds_from_iso(payload.timestamp)]
            ELSE s1
      s3 == IF IsStrA(payload.cwd) THEN [s2 EXCEPT !.cwd = payload.cwd] ELSE s2
  IN IF IsStrA(payload.cli_version) THEN [s3 EXCEPT !.cli_version = payload.cli_version] ELSE s3

\* lines 184-201
ConsumeMessage(s, payload) ==
  IF payload.role \notin {"user", "assistant"} THEN s
  ELSE LET text == _extract_text_from_message_payload(payload)
           kept == IF payload.role = "user" THEN _strip_boilerplate(text) ELSE text
       IN IF text = <<>> \/ kept = <<>> THEN s
          ELSE Append2(s, <<payload.role>>, kept)

\* f"tool_call {name or 'unknown'}"
ToolCallLabel(name) == <<"tool_call", " ">> \o (IF name = <<>> THEN <<"unknown">> ELSE name)
\* f"tool_output {name}" if name else "tool_output"
ToolOutputLabel(name) == IF name = <<>> THEN <<"tool_output">> ELSE <<"tool_output", " ">> \o name

\* RecordName that records nothing
RecordName_Never(s, call_id, name) == s

\* the name a call records, lines 209-210 and 238-239
RecordName(s, call_id, name) ==
  IF call_id # "" /\ name # <<>>
  THEN [s EXCEPT !.tool_name_by_call_id = SetName(@, call_id, name)]
  ELSE s

\* lines 212-218
FunctionCallText(name, args) ==
  LET args_dict == _maybe_parse_json_dict(args)
      cmds == {d.cmd : d \in {e \in args_dict : DictTruthy(e) /\ name = <<"exec_command">>}}
      fromCmd == IF \E c \in cmds : IsStrT(c) /\ Strip(c) # <<>>
                 THEN Strip(CHOOSE c \in cmds : TRUE) ELSE <<>>
  IN IF fromCmd # <<>> THEN fromCmd
     ELSE IF IsStrT(args) THEN args
     ELSE IF \E d \in args_dict : DictTruthy(d) THEN Dumps(CHOOSE d \in args_dict : TRUE)
     ELSE <<>>

\* lines 204-221
ConsumeFunctionCall(s, payload) ==
  LET name == StrOrEmptyT(payload.name)
      call_id == StrOrEmptyA(payload.call_id)
      s1 == RecordName(s, call_id, name)
      tool_text == FunctionCallText(name, payload.arguments)
  IN IF tool_text # <<>> THEN Append2(s1, ToolCallLabel(name), tool_text) ELSE s1

\* lines 226-227
FunctionCallOutputText(output) == StrOrEmptyT(output)

\* lines 223-231
ConsumeFunctionCallOutput(s, payload) ==
  LET call_id == StrOrEmptyA(payload.call_id)
      name == NameOf(s.tool_name_by_call_id, call_id)
      out_text == FunctionCallOutputText(payload.output)
  IN IF out_text # <<>> THEN Append2(s, ToolOutputLabel(name), out_text) ELSE s

\* lines 234-243
ConsumeCustomToolCall(s, payload) ==
  LET name == StrOrEmptyT(payload.name)
      call_id == StrOrEmptyA(payload.call_id)
      s1 == RecordName(s, call_id, name)
      inp_text == StrOrEmptyT(payload.input)
  IN IF inp_text # <<>> THEN Append2(s1, ToolCallLabel(name), inp_text) ELSE s1

\* lines 248-255
CustomToolCallOutputText(output) ==
  IF ~IsStrT(output) THEN <<>>
  ELSE LET out_dict == _maybe_parse_json_dict(output)
       IN IF \E d \in out_dict : DictTruthy(d) /\ IsStrT(d.output)
          THEN (CHOOSE d \in out_dict : TRUE).output
          ELSE output

\* lines 245-259
ConsumeCustomToolCallOutput(s, payload) ==
  LET call_id == StrOrEmptyA(payload.call_id)
      name == NameOf(s.tool_name_by_call_id, call_id)
      out_text == CustomToolCallOutputText(payload.output)
  IN IF out_text # <<>> THEN Append2(s, ToolOutputLabel(name), out_text) ELSE s

\* the loop body for a line that is a JSON object, lines 155-259
ConsumeObject(s, obj) ==
  LET s1 == ConsumeTimestamp(s, obj)
      payload == obj.payload
  IN CASE obj.type = "session_meta" -> ConsumeSessionMeta(s1, payload)
       [] obj.type # "session_meta" /\ obj.type # "response_item" -> s1
       [] OTHER ->
            CASE payload.type = "message" -> ConsumeMessage(s1, payload)
              [] payload.type = "function_call" -> ConsumeFunctionCall(s1, payload)
              [] payload.type = "function_call_output" -> ConsumeFunctionCallOutput(s1, payload)
              [] payload.type = "custom_tool_call" -> ConsumeCustomToolCall(s1, payload)
              [] payload.type = "custom_tool_call_output" -> ConsumeCustomToolCallOutput(s1, payload)
              [] OTHER -> s1

\* what the loop body does with a line: "skip" (blank), "consume", "JSONDecodeError",
\* "AttributeError" (obj.get on a value that is no dict, line 155) or "TypeError"
\* (iterating a message content that is no list, line 100)
LineEffect(line) ==
  CASE line.kind = "blank" -> "skip"
    [] line.kind = "corrupt" -> "JSONDecodeError"
    [] line.kind = "scalar" -> "AttributeError"
    [] OTHER ->
         IF line.type = "response_item" /\ line.payload.type = "message"
            /\ line.payload.role \in {"user", "assistant"}
            /\ line.payload.content.kind = "scalar"
         THEN "TypeError" ELSE "consume"

NoDoc == [kind |-> "none"]
Raised == [kind |-> "raise"]
Pending == [kind |-> "pending"]

RECURSIVE UserMessages(_)
UserMessages(messages) ==
  IF messages = <<>> THEN <<>>
  ELSE (IF Head(messages).role = <<"user">> /\ CharLen(Head(messages).text) >= 8
        THEN <<Head(messages).text>> ELSE <<>>) \o UserMessages(Tail(messages))

RECURSIVE ContentLines(_)
ContentLines(messages) ==
  IF messages = <<>> THEN <<>>
  ELSE <<Head(messages).role \o <<":", " ">> \o Head(messages).text>>
       \o ContentLines(Tail(messages))

\* lines 269-303; fname is path.name, mt is int(path.stat().st_mtime)
BuildDoc(s, fname, mt) ==
  LET created_at == IF s.created_at # None THEN s.created_at
                    ELSE IF s.updated_at \notin {None, 0} THEN s.updated_at ELSE mt
      updated_at == IF s.updated_at = None THEN created_at ELSE s.updated_at
      user_messages == UserMessages(s.messages)
      first == IF user_messages = <<>> THEN <<>> ELSE Truncate(user_messages[1], 200)
  IN [kind |-> "doc",
      session_id |-> s.session_id,
      created_at |-> created_at,
      updated_at |-> updated_at,
      cwd |-> s.cwd,
      cli_version |-> s.cli_version,
      title |-> IF first = <<>> THEN <<fname>> ELSE first,
      preview |-> IF user_messages = <<>> THEN <<>>
                  ELSE Truncate(user_messages[Len(user_messages)], 240),
      content |-> Strip(Join(ContentLines(s.messages), <<"\n", "\n">>))]

\* Finalize without the test of line 266
Finalize_NoIdTest(s, fname, mt) == BuildDoc(s, fname, mt)

\* lines 266-303
Finalize(s, fname, mt) ==
  IF s.session_id \in {NoneStr, ""} THEN NoDoc ELSE BuildDoc(s, fname, mt)

\* the whole call on a file that opens
RECURSIVE ParseFrom(_, _, _, _)
ParseFrom(s, ls, fname, mt) ==
  IF ls = <<>> THEN Finalize(s, fname, mt)
  ELSE LET e == LineEffect(Head(ls))
       IN CASE e = "skip" -> ParseFrom(s, Tail(ls), fname, mt)
            [] e = "consume" -> ParseFrom(ConsumeObject(s, Head(ls)), Tail(ls), fname, mt)
            [] e = "JSONDecodeError" -> NoDoc
            [] OTHER -> Raised

FileName == "rollout.jsonl"

---------------------------------------------------------------------------
(* One call of parse_codex_session_file, a line at a time. *)

\* path.open(), lines 148-149 and 261-262
Open ==
  /\ pc = "open"
  /\ \/ openable = "ok" /\ pc' = "loop" /\ out' = out
     \/ openable = "missing" /\ pc' = "done" /\ out' = NoDoc
     \/ openable = "denied" /\ pc' = "done" /\ out' = Raised
  /\ UNCHANGED <<lines, openable, mtime, pos, ps>>
  /\ UNCHANGED NotParse

\* one pass of the loop body that ends normally, lines 150-259
StepLine ==
  /\ pc = "loop"
  /\ pos < Len(lines)
  /\ LET line == lines[pos + 1]
     IN /\ LineEffect(line) \in {"skip", "consume"}
        /\ ps' = IF LineEffect(line) = "skip" THEN ps ELSE ConsumeObject(ps, line)
  /\ pos' = pos + 1
  /\ UNCHANGED <<lines, openable, mtime, pc, out>>
  /\ UNCHANGED NotParse

\* json.loads raises, lines 154 and 263-264
StepJSONDecodeError ==
  /\ pc = "loop"
  /\ pos < Len(lines)
  /\ LineEffect(lines[pos + 1]) = "JSONDecodeError"
  /\ pc' = "done"
  /\ out' = NoDoc
  /\ UNCHANGED <<lines, openable, mtime, pos, ps>>
  /\ UNCHANGED NotParse

\* an exception no except clause of the function names, lines 155 and 100
StepUncaught ==
  /\ pc = "loop"
  /\ pos < Len(lines)
  /\ LineEffect(lines[pos + 1]) \in {"AttributeError", "TypeError"}
  /\ pc' = "done"
  /\ out' = Raised
  /\ UNCHANGED <<lines, openable, mtime, pos, ps>>
  /\ UNCHANGED NotParse

\* the end of the file, lines 266-303
Finish ==
  /\ pc = "loop"
  /\ pos = Len(lines)
  /\ pc' = "done"
  /\ out' = Finalize(ps, FileName, mtime)
  /\ UNCHANGED <<lines, openable, mtime, pos, ps>>
  /\ UNCHANGED NotParse

NextParse == Open \/ StepLine \/ StepJSONDecodeError \/ StepUncaught \/ Finish

\* the build_prefix_query variables, while no call is studied
QueryIdle == user_query = <<>> /\ qpc = "return" /\ built = <<>>

\* the variables of a part of the program that is not studied
ParseIdle ==
  /\ lines = <<>> /\ openable = "ok" /\ mtime = 0 /\ pc = "done" /\ pos = 0
  /\ ps = ParseInit /\ out = Pending
CallIdle == cargs = <<>> /\ cpc = "return" /\ ret = <<>>
DebounceIdle == deb = <<>> /\ clock = 0 /\ marked = None
BrowserIdle == ui = <<>> /\ bret = "" /\ nkeys = 0

\* the index_sessions variables, while no run is studied
IndexIdle ==
  /\ fs = <<>> /\ running_version = 0 /\ committed = <<>> /\ tx = <<>> /\ ipc = "idle"
  /\ ix = <<>> /\ parsed = {} /\ vanished = {} /\ dirty = {} /\ nruns = 0 /\ nedits = 0

\* all sequences over S of length at most n
SeqsUpTo(S, n) == UNION {[1..k -> S] : k \in 0..n}

MTimes == {4, 5}

---------------------------------------------------------------------------
(* Files of session_meta records, messages and damaged lines. *)

UserText == <<"search_for_foo.py">>
MetaLines ==
  { Meta("t1", "s1", "t2", "/a", "v1"),
    Meta("t2", "s1", "t1", A_ABSENT, A_ABSENT),
    Meta(A_ABSENT, "s1", A_ABSENT, "/b", A_NONSTR),
    Meta("t0", "s2", A_ABSENT, A_NONSTR, "v2"),
    Meta("t1Z", "s2", "bad", "/b", "v2"),
    Meta("t1", "", "t1", "/a", "v1"),
    Meta("t1", A_NONSTR, "t1", "/a", "v1"),
    Meta(A_ABSENT, A_ABSENT, "t2", A_ABSENT, A_ABSENT) }
OtherLines ==
  { Line("blank"), Line("corrupt"), Line("scalar"),
    Obj("t2", "event_msg", NoPayload),
    Obj("bad", "response_item", [NoPayload EXCEPT !.type = "reasoning"]),
    Msg("t1", "user", <<Item("input_text", UserText)>>),
    Msg("t2", "user", <<Item("input_text", <<"hi">>)>>),
    Msg("t1", "user",
        <<Item("input_text", <<"<environment_context>", "\n", "#AGENTS.md", " ", "hi", "\n">>)>>),
    Msg("t0", "assistant",
        <<Item("output_text", <<"done_with_it", " ">>), Item("tool_result", <<"ok">>)>>),
    Msg("t2", "developer", <<Item("input_text", UserText)>>),
    Obj("t1", "response_item",
        [NoPayload EXCEPT !.type = "message", !.role = "user",
                          !.content = [kind |-> "scalar", items |-> <<>>]]) }
ParseLines == MetaLines \cup OtherLines

InitParse ==
  /\ openable \in {"ok", "missing", "denied"}
  /\ lines \in IF openable = "ok" THEN SeqsUpTo(ParseLines, MaxLines) ELSE {<<>>}
  /\ mtime \in MTimes
  /\ pc = "open"
  /\ pos = 0
  /\ ps = ParseInit
  /\ out = Pending
  /\ IndexIdle /\ QueryIdle /\ CallIdle /\ DebounceIdle /\ BrowserIdle

SpecParse == InitParse /\ [][NextParse]_vars

---------------------------------------------------------------------------
(* Files of tool calls and tool outputs, after one session_meta record. *)

MaxToolLines == 3

Exec == <<"exec_command">>
Patch == <<"apply_patch">>
Args(cmd) == Dumps([cmd |-> cmd, output |-> T_ABSENT])
Wrapped(output) == Dumps([cmd |-> T_ABSENT, output |-> output])

ToolLines ==
  { FunctionCall(Exec, "c1", Args(<<" ", "ls", " ">>)),
    FunctionCall(Exec, "c1", Args(<<" ">>)),
    FunctionCall(<<"shell">>, "c2", Args(<<"ls">>)),
    FunctionCall(T_ABSENT, "c1", <<"raw">>),
    FunctionCall(Exec, A_ABSENT, T_NONSTR),
    FunctionCallOutput("c1", <<"out">>),
    FunctionCallOutput("c1", Wrapped(<<"ok", "\n">>)),
    FunctionCallOutput("c2", <<"out", "\n">>),
    FunctionCallOutput(A_ABSENT, T_NONSTR),
    CustomToolCall(Patch, "c1", <<"Update", " ", "README.md">>),
    CustomToolCall(Exec, "c2", Args(<<"ls">>)),
    CustomToolCall(T_NONSTR, "c2", T_ABSENT),
    CustomToolCallOutput("c1", Wrapped(<<"ok", "\n">>)),
    CustomToolCallOutput("c2", <<"out">>),
    CustomToolCallOutput("c1", Wrapped(T_NONSTR)),
    CustomToolCallOutput("c1", Wrapped(<<>>)),
    CustomToolCallOutput("c2", Dumps([cmd |-> T_ABSENT, output |-> T_ABSENT])),
    Line("corrupt"), Line("scalar") }

ToolHeader == Meta("t1", "s1", "t1", "/a", "v1")

InitTools ==
  /\ openable \in {"ok", "missing", "denied"}
  /\ lines \in IF openable = "ok"
               THEN {<<ToolHeader>> \o body : body \in SeqsUpTo(ToolLines, MaxToolLines)}
               ELSE {<<>>}
  /\ mtime = 5
  /\ pc = "open"
  /\ pos = 0
  /\ ps = ParseInit
  /\ out = Pending
  /\ IndexIdle /\ QueryIdle /\ CallIdle /\ DebounceIdle /\ BrowserIdle

SpecTools == InitTools /\ [][NextParse]_vars

---------------------------------------------------------------------------
(* Claims about the parser, under SpecParse. *)

IsMeta(line) == line.kind = "object" /\ line.type = "session_meta"
\* the ids of the session_meta records of a file that are strings
StringIds(ls) == {ls[i].payload.id : i \in {j \in 1..Len(ls) : IsMeta(ls[j]) /\ IsStrA(ls[j].payload.id)}}
AllObjects(ls) == \A i \in 1..Len(ls) : ls[i].kind = "object"
HasKind(ls, kind) == \E i \in 1..Len(ls) : ls[i].kind = kind
HasEffect(ls, e) == \E i \in 1..Len(ls) : LineEffect(ls[i]) = e
Returned == pc = "done"

\* C1: a file that opens, every line of which is a JSON object the loop body
\* consumes, with a session_meta record whose id is a (non-empty) string, yields a
\* document whose session_id is an id of the file and whose updated_at >= created_at.
C1_DocumentWithOrderedTimes ==
  (Returned /\ openable = "ok" /\ StringIds(lines) \ {""} # {}
     /\ \A i \in 1..Len(lines) : LineEffect(lines[i]) = "consume")
    => /\ out.kind = "doc"
       /\ out.session_id \in StringIds(lines)
       /\ out.updated_at >= out.created_at

\* C2: a file with no session_meta record, or with none whose id is a string,
\* yields no document: the call returns None, or ends in an exception when a line
\* raises one or the file cannot be read.
C2_NoStringIdNoDocument ==
  (Returned /\ StringIds(lines) = {})
    => /\ out.kind # "doc"
       /\ out.kind = "raise" =>
            openable = "denied" \/ HasEffect(lines, "AttributeError") \/ HasEffect(lines, "TypeError")

\* C2, its case: every line was read, a session_meta record had an id that is no
\* string, a message was collected, and None was returned.
C2_Witness ==
  /\ Returned /\ openable = "ok" /\ pos = Len(lines)
  /\ \E i \in 1..Len(lines) : IsMeta(lines[i]) /\ lines[i].payload.id = A_NONSTR
  /\ ps.messages # <<>>
  /\ out = NoDoc

\* C3: a line that is not JSON is skipped alone: the call returns what it returns
\* for the file without its corrupt lines (a document, when those lines resolve a
\* session id).
C3_CorruptLineSkippedAlone ==
  (Returned /\ openable = "ok" /\ HasKind(lines, "corrupt")
     /\ ~HasEffect(lines, "AttributeError") /\ ~HasEffect(lines, "TypeError"))
    => out = ParseFrom(ParseInit, SelectSeq(lines, LAMBDA l : l.kind # "corrupt"), FileName, mtime)

---------------------------------------------------------------------------
(* Claims about tool calls and tool outputs, under SpecTools. *)

IsResponseItem(line, payload_type) ==
  line.kind = "object" /\ line.type = "response_item" /\ line.payload.type = payload_type
IsCall(line) == IsResponseItem(line, "function_call") \/ IsResponseItem(line, "custom_tool_call")
IsOutput(line) ==
  IsResponseItem(line, "function_call_output") \/ IsResponseItem(line, "custom_tool_call_output")
CallId(line) == IF IsStrA(line.payload.call_id) THEN line.payload.call_id ELSE ""
CallName(line) == IF IsStrT(line.payload.name) THEN line.payload.name ELSE <<>>

\* the cmd argument of an exec_command function_call, when it has one that is not
\* blank: {} or {cmd}
CmdArgument(line) ==
  {d.cmd : d \in {e \in JsonDicts :
      /\ IsResponseItem(line, "function_call") /\ CallName(line) = Exec
      /\ Dumps(e) = line.payload.arguments
      /\ IsStrT(e.cmd) /\ \E k \in 1..Len(e.cmd) : e.cmd[k] \notin Whitespace}}
\* the raw arguments of a function_call, the input of a custom_tool_call
RawCallText(line) ==
  LET raw == IF IsResponseItem(line, "function_call") THEN line.payload.arguments
             ELSE line.payload.input
  IN IF IsStrT(raw) THEN raw ELSE <<>>
\* the text of a call as the claim has it, and as the parser keeps it
ClaimedCallText(line) ==
  IF CmdArgument(line) # {} THEN CHOOSE c \in CmdArgument(line) : TRUE ELSE RawCallText(line)
KeptCallText(line) ==
  IF CmdArgument(line) # {} THEN Strip(CHOOSE c \in CmdArgument(line) : TRUE) ELSE RawCallText(line)

\* the inner output string of an output that is a JSON object: {} or {inner}
InnerOutput(line) ==
  {d.output : d \in {e \in JsonDicts : Dumps(e) = line.payload.output /\ IsStrT(e.output)}}
\* the text of an output record as the parser keeps it
KeptOutputText(line) ==
  IF IsResponseItem(line, "custom_tool_call_output") /\ InnerOutput(line) # {}
  THEN CHOOSE o \in InnerOutput(line) : TRUE
  ELSE IF IsStrT(line.payload.output) THEN line.payload.output ELSE <<>>

\* the name the latest call before line j recorded for call_id, "" when none did
RECURSIVE RecordedName(_, _, _)
RecordedName(ls, j, call_id) ==
  IF j = 0 \/ call_id = "" THEN <<>>
  ELSE IF IsCall(ls[j]) /\ CallId(ls[j]) = call_id /\ CallName(ls[j]) # <<>> THEN CallName(ls[j])
  ELSE RecordedName(ls, j - 1, call_id)

Entry(label, text) == label \o <<":", " ">> \o text
OutputLabel(ls, j) ==
  LET name == RecordedName(ls, j - 1, CallId(ls[j]))
  IN IF name = <<>> THEN <<"tool_output">> ELSE <<"tool_output", " ">> \o name

\* x occurs in c, and y occurs in c after it
OccursThen(c, x, y) ==
  \E i \in 0..(Len(c) - Len(x)), j \in 0..(Len(c) - Len(y)) :
    /\ i + Len(x) <= j
    /\ SubSeq(c, i + 1, i + Len(x)) = x
    /\ SubSeq(c, j + 1, j + Len(y)) = y

\* a call at line i with a text, an output at line j > i with a text and the same
\* call id
CallThenOutput(ls, i, j) ==
  /\ i < j /\ IsCall(ls[i]) /\ IsOutput(ls[j])
  /\ CallId(ls[i]) # "" /\ CallId(ls[i]) = CallId(ls[j])
  /\ KeptCallText(ls[i]) # <<>> /\ KeptOutputText(ls[j]) # <<>>

\* C8, as stated: for a call followed by an output with the same call id, the
\* content contains the call's text (the cmd argument of an exec_command call, else
\* the raw arguments or input) and then the output text, and the output's entry is
\* labeled tool_output <name> with the name recorded for the call id.
C8_CallTextThenOutputText ==
  (Returned /\ out.kind = "doc") =>
    \A i, j \in 1..Len(lines) : CallThenOutput(lines, i, j) =>
      /\ OccursThen(out.content, ClaimedCallText(lines[i]), KeptOutputText(lines[j]))
      /\ Contains(out.content, Entry(OutputLabel(lines, j), KeptOutputText(lines[j])))

\* the texts an output record may show: its output string, or the inner output
\* string when the output is a JSON object that has one
OutputTexts(line) ==
  (IF IsStrT(line.payload.output) THEN {line.payload.output} ELSE {}) \cup InnerOutput(line)

\* C8, amended: the content contains the call's entry, whose text is the cmd
\* argument stripped of surrounding whitespace for an exec_command function_call
\* with a cmd that is not blank and else the raw arguments or input, and after it
\* the output's entry, labeled tool_output <name> with the name the latest call
\* recorded for the call id (tool_output alone when none did) and holding the
\* output string or its inner output string, up to the whitespace str.strip()
\* removes at the very end of the content.
C8_CallEntryThenOutputEntry ==
  (Returned /\ out.kind = "doc") =>
    \A i, j \in 1..Len(lines) : CallThenOutput(lines, i, j) =>
      \E text \in OutputTexts(lines[j]) :
        /\ text # <<>>
        /\ OccursThen(out.content,
                      Entry(ToolCallLabel(CallName(lines[i])), KeptCallText(lines[i])),
                      RStrip(Entry(OutputLabel(lines, j), text)))

\* C8, its case: an exec_command call whose cmd has whitespace around it, then an
\* output with the same call id and a text, in a file that yields a document.
C8_Witness ==
  /\ Returned /\ out.kind = "doc"
  /\ \E i, j \in 1..Len(lines) :
       /\ CallThenOutput(lines, i, j)
       /\ CmdArgument(lines[i]) = {<<" ", "ls", " ">>}
       /\ RecordedName(lines, j - 1, CallId(lines[j])) = Exec

\* C9: an output (of either pair) that is a JSON object with an inner string
\* output is unwrapped: the content holds the entry with the inner string and not
\* the entry with the JSON text; any other output is kept as it is (up to the
\* whitespace stripped at the end of the content).
C9_OutputUnwrappedForBothPairs ==
  (Returned /\ out.kind = "doc") =>
    \A j \in 1..Len(lines) : (IsOutput(lines[j]) /\ IsStrT(lines[j].payload.output)) =>
      LET label == OutputLabel(lines, j)
          inner == InnerOutput(lines[j])
      IN IF inner # {}
         THEN \A o \in inner : o # <<>> =>
                /\ Contains(out.content, RStrip(Entry(label, o)))
                /\ ~Contains(out.content, Entry(label, lines[j].payload.output))
         ELSE lines[j].payload.output # <<>> =>
                Contains(out.content, RStrip(Entry(label, lines[j].payload.output)))


---------------------------------------------------------------------------
(* index_sessions: runs over a directory of log files and an index store.

   The store is the SQLite database: the meta keys the function reads and
   writes, and the tables files, sessions, user_sessions and session_fts.
   `committed` is what a new connection would read, `tx` what the run's own
   connection reads, so a rollback is tx' = committed and a commit is
   committed' = tx. The clock is the number of the run. Left out: the columns
   that only hold the clock (indexed_at, user_sessions.updated_at) and the
   repo_* columns, which come from git subprocesses. *)

PARSER_VERSION == 6
MaxRuns == 2
MaxEdits == 2

\* the modification times a file takes, st_mtime_ns
Mtimes == {1, 2}

\* sorted(iter_session_files(codex_dir)), line 415: the paths in sorted order
Paths == <<"p1", "p2">>
PathSet == {Paths[i] : i \in 1..Len(Paths)}
Sids == {"s1", "s2"}

NoFile == [exists |-> FALSE]
NoRow == [present |-> FALSE]

File(lines_, readable, mtime_ns) ==
  [exists |-> TRUE, lines |-> lines_, readable |-> readable,
   st_mtime_ns |-> mtime_ns, st_size |-> Len(lines_)]

IndexHeader(sid) == Meta("t1", sid, "t1", "/a", "v1")
IndexUser == Msg("t1", "user", <<Item("input_text", UserText)>>)
IndexAssistant == Msg("t2", "assistant", <<Item("output_text", <<"done">>)>>)

\* what a log file may hold: a session, the same session grown by a message,
\* another session, a log with a corrupt line, a log with a line that is JSON
\* but no object
FileContents ==
  { <<IndexHeader("s1"), IndexUser>>,
    <<IndexHeader("s1"), IndexUser, IndexAssistant>>,
    <<IndexHeader("s2")>>,
    <<IndexHeader("s1"), Line("corrupt")>>,
    <<Line("scalar")>> }

\* the whole call, on a file that exists; path.name is the path here
parse_codex_session_file(p, file) ==
  IF ~file.readable THEN Raised
  ELSE ParseFrom(ParseInit, file.lines, p, file.st_mtime_ns)

EmptyStore ==
  [meta |-> [parser_version |-> 0, last_index_started_at |-> 0,
             last_index_reason |-> "", last_index_finished_at |-> 0],
   files |-> [p \in PathSet |-> NoRow],
   sessions |-> [sid \in Sids |-> NoRow],
   user_sessions |-> [sid \in Sids |-> NoRow],
   session_fts |-> [sid \in Sids |-> <<>>]]

NoRun == [force |-> FALSE, force_reindex |-> FALSE, files |-> <<>>, i |-> 0, changed |-> 0]

\* the column defaults of user_sessions, lines 50-56
DefaultAnnotation == [present |-> TRUE, pinned |-> 0, tags |-> "", note |-> ""]

\* INSERT OR REPLACE in the place of INSERT OR IGNORE
InsertOrIgnoreAnnotation_Replace(rows, sid) == [rows EXCEPT ![sid] = DefaultAnnotation]

\* INSERT OR IGNORE INTO user_sessions, lines 517-520 and 1259
InsertOrIgnoreAnnotation(rows, sid) ==
  IF rows[sid].present THEN rows ELSE [rows EXCEPT ![sid] = DefaultAnnotation]

\* the upsert into sessions, lines 482-516
UpsertSession(rows, p, doc) ==
  [rows EXCEPT ![doc.session_id] =
     [present |-> TRUE, created_at |-> doc.created_at, updated_at |-> doc.updated_at,
      cwd |-> doc.cwd, cli_version |-> doc.cli_version, file_path |-> p,
      title |-> doc.title, preview |-> doc.preview]]

\* the INSERT of line 523 without the DELETE of line 522
ReplaceFts_NoDelete(rows, doc) ==
  [rows EXCEPT ![doc.session_id] = Append(@, doc.content)]

\* DELETE then INSERT on session_fts, lines 522-526
ReplaceFts(rows, doc) ==
  LET deleted == [rows EXCEPT ![doc.session_id] = <<>>]
  IN [deleted EXCEPT ![doc.session_id] = Append(deleted[doc.session_id], doc.content)]

\* the upsert into files, lines 528-538
UpsertFile(rows, p, file) ==
  [rows EXCEPT ![p] = [present |-> TRUE, mtime_ns |-> file.st_mtime_ns,
                       size_bytes |-> file.st_size]]

\* lines 482-538
StoreDocument(store, p, file, doc) ==
  [store EXCEPT !.sessions = UpsertSession(@, p, doc),
                !.user_sessions = InsertOrIgnoreAnnotation(@, doc.session_id),
                !.session_fts = ReplaceFts(@, doc),
                !.files = UpsertFile(@, p, file)]

\* the test of lines 430-435
FingerprintMatches(store, p, file) ==
  /\ store.files[p].present
  /\ store.files[p].mtime_ns = file.st_mtime_ns
  /\ store.files[p].size_bytes = file.st_size

\* line 418
Reason(force, force_reindex) ==
  IF force THEN "forced" ELSE IF force_reindex THEN "parser_bump" ELSE "incremental"


\* lines 400-418: the first transaction reads and commits the parser version,
\* the files are enumerated, the second transaction opens
StartRun ==
  /\ ipc # "running"
  /\ nruns < MaxRuns
  /\ \E force \in BOOLEAN :
       LET current == committed.meta.parser_version
           bump == current # running_version
           force_reindex == bump \/ force
           first == IF bump THEN [committed EXCEPT !.meta.parser_version = running_version]
                    ELSE committed
       IN /\ committed' = first
          /\ tx' = [first EXCEPT !.meta.last_index_started_at = nruns + 1,
                                 !.meta.last_index_reason = Reason(force, force_reindex)]
          /\ ix' = [force |-> force, force_reindex |-> force_reindex,
                    files |-> SelectSeq(Paths, LAMBDA p : fs[p].exists),
                    i |-> 0, changed |-> 0]
  /\ ipc' = "running"
  /\ parsed' = {}
  /\ vanished' = {}
  /\ nruns' = nruns + 1
  /\ UNCHANGED <<fs, running_version, dirty, nedits>>
  /\ UNCHANGED NotIndex

\* the file the loop of line 419 is at
Current == ix.files[ix.i + 1]
InLoop == ipc = "running" /\ ix.i < Len(ix.files)

\* lines 420-436: the file exists and the fingerprint test does not skip it
ToParse ==
  /\ InLoop
  /\ fs[Current].exists
  /\ ~(~ix.force_reindex /\ FingerprintMatches(tx, Current, fs[Current]))

\* an index that prunes: the sessions of a file that is gone are deleted
StepVanished_Prune ==
  /\ InLoop
  /\ ~fs[Current].exists
  /\ ix' = [ix EXCEPT !.i = @ + 1]
  /\ vanished' = vanished \cup {Current}
  /\ tx' = [tx EXCEPT
              !.sessions = [sid \in Sids |->
                 IF @[sid].present /\ @[sid].file_path = Current THEN NoRow ELSE @[sid]],
              !.files = [@ EXCEPT ![Current] = NoRow]]
  /\ UNCHANGED <<fs, running_version, committed, ipc, parsed, dirty, nruns, nedits>>
  /\ UNCHANGED NotIndex

\* lines 420-423: stat() raises FileNotFoundError
StepVanished ==
  /\ InLoop
  /\ ~fs[Current].exists
  /\ ix' = [ix EXCEPT !.i = @ + 1]
  /\ vanished' = vanished \cup {Current}
  /\ UNCHANGED <<fs, running_version, committed, tx, ipc, parsed, dirty, nruns, nedits>>
  /\ UNCHANGED NotIndex

\* lines 430-436: the fingerprint of the file record matches
StepUnchanged ==
  /\ InLoop
  /\ fs[Current].exists
  /\ ~ix.force_reindex
  /\ FingerprintMatches(tx, Current, fs[Current])
  /\ ix' = [ix EXCEPT !.i = @ + 1]
  /\ UNCHANGED <<fs, running_version, committed, tx, ipc, parsed, vanished, dirty, nruns, nedits>>
  /\ UNCHANGED NotIndex

\* lines 438-440: the parser returns None
StepNoDocument ==
  /\ ToParse
  /\ parse_codex_session_file(Current, fs[Current]).kind = "none"
  /\ ix' = [ix EXCEPT !.i = @ + 1]
  /\ parsed' = parsed \cup {Current}
  /\ UNCHANGED <<fs, running_version, committed, tx, ipc, vanished, dirty, nruns, nedits>>
  /\ UNCHANGED NotIndex

\* lines 438-539: the parser returns a document
StepDocument ==
  /\ ToParse
  /\ LET doc == parse_codex_session_file(Current, fs[Current])
     IN /\ doc.kind = "doc"
        /\ tx' = StoreDocument(tx, Current, fs[Current], doc)
  /\ ix' = [ix EXCEPT !.i = @ + 1, !.changed = @ + 1]
  /\ parsed' = parsed \cup {Current}
  /\ UNCHANGED <<fs, running_version, committed, ipc, vanished, dirty, nruns, nedits>>
  /\ UNCHANGED NotIndex

\* line 438: the parser raises; the exception leaves the with block of line
\* 416, which rolls the transaction back, and then index_sessions
StepRaise ==
  /\ ToParse
  /\ parse_codex_session_file(Current, fs[Current]).kind = "raise"
  /\ parsed' = parsed \cup {Current}
  /\ tx' = committed
  /\ ipc' = "raised"
  /\ UNCHANGED <<fs, running_version, committed, ix, vanished, dirty, nruns, nedits>>
  /\ UNCHANGED NotIndex

\* lines 541-544: the loop is over, the transaction commits
FinishRun ==
  /\ ipc = "running"
  /\ ix.i = Len(ix.files)
  /\ committed' = [tx EXCEPT !.meta.last_index_finished_at = nruns]
  /\ tx' = committed'
  /\ ipc' = "done"
  /\ dirty' = {}
  /\ UNCHANGED <<fs, running_version, ix, parsed, vanished, nruns, nedits>>
  /\ UNCHANGED NotIndex

\* the process is killed inside the transaction of line 416
Kill ==
  /\ ipc = "running"
  /\ tx' = committed
  /\ ipc' = "killed"
  /\ UNCHANGED <<fs, running_version, committed, ix, parsed, vanished, dirty, nruns, nedits>>
  /\ UNCHANGED NotIndex

\* Codex writes a log file: a new file, or new content with a new mtime or size
WriteFile ==
  /\ ipc # "running"
  /\ nedits < MaxEdits
  /\ \E p \in PathSet, ls \in FileContents, readable \in BOOLEAN, m \in Mtimes :
       LET new == File(ls, readable, m)
       IN /\ readable \/ ls = <<IndexHeader("s2")>>
          /\ IF fs[p].exists
             THEN /\ m \in {fs[p].st_mtime_ns, fs[p].st_mtime_ns + 1}
                  /\ <<m, new.st_size>> # <<fs[p].st_mtime_ns, fs[p].st_size>>
             ELSE m = 1
          /\ fs' = [fs EXCEPT ![p] = new]
          /\ dirty' = dirty \cup {p}
  /\ nedits' = nedits + 1
  /\ UNCHANGED <<running_version, committed, tx, ipc, ix, parsed, vanished, nruns>>
  /\ UNCHANGED NotIndex

\* a log file is removed, at any time
DeleteFile ==
  /\ nedits < MaxEdits
  /\ \E p \in PathSet :
       /\ fs[p].exists
       /\ fs' = [fs EXCEPT ![p] = NoFile]
  /\ nedits' = nedits + 1
  /\ UNCHANGED <<running_version, committed, tx, ipc, ix, parsed, vanished, dirty, nruns>>
  /\ UNCHANGED NotIndex

\* _set_user_field from the browser, lines 1256-1260, on a session it lists:
\* the pin toggle of lines 1752-1759, the tags and the note
_set_user_field ==
  /\ ipc # "running"
  /\ nedits < MaxEdits
  /\ \E sid \in Sids, field \in {"pinned", "tags", "note"} :
       /\ committed.sessions[sid].present
       /\ LET rows == InsertOrIgnoreAnnotation(committed.user_sessions, sid)
              row == rows[sid]
              updated == CASE field = "pinned" -> [row EXCEPT !.pinned = 1 - @]
                           [] field = "tags" -> [row EXCEPT !.tags = IF @ = "" THEN "work" ELSE ""]
                           [] OTHER -> [row EXCEPT !.note = IF @ = "" THEN "todo" ELSE ""]
          IN committed' = [committed EXCEPT !.user_sessions = [rows EXCEPT ![sid] = updated]]
  /\ tx' = committed'
  /\ nedits' = nedits + 1
  /\ UNCHANGED <<fs, running_version, ipc, ix, parsed, vanished, dirty, nruns>>
  /\ UNCHANGED NotIndex

\* a release with the next PARSER_VERSION is installed
Upgrade ==
  /\ ipc # "running"
  /\ running_version < PARSER_VERSION
  /\ running_version' = running_version + 1
  /\ UNCHANGED <<fs, committed, tx, ipc, ix, parsed, vanished, dirty, nruns, nedits>>
  /\ UNCHANGED NotIndex

NextIndex ==
  \/ StartRun \/ StepVanished \/ StepUnchanged \/ StepNoDocument \/ StepDocument
  \/ StepRaise \/ FinishRun \/ Kill
  \/ WriteFile \/ DeleteFile \/ _set_user_field \/ Upgrade

InitIndex ==
  /\ ParseIdle /\ QueryIdle /\ CallIdle /\ DebounceIdle /\ BrowserIdle
  /\ fs = [p \in PathSet |-> NoFile]
  /\ running_version = PARSER_VERSION - 1
  /\ committed = EmptyStore
  /\ tx = EmptyStore
  /\ ipc = "idle"
  /\ ix = NoRun
  /\ parsed = {}
  /\ vanished = {}
  /\ dirty = {}
  /\ nruns = 0
  /\ nedits = 0

SpecIndex == InitIndex /\ [][NextIndex]_vars


---------------------------------------------------------------------------
(* Claims about index_sessions, under SpecIndex. *)

\* C4: a file that cannot be parsed does not make index_sessions fail or
\* stop: no run ends with an exception leaving the call.
C4_RunSurvivesBadFile == ipc # "raised"

\* C5: a run that is neither forced nor after a parser version change parses
\* only files written since the last run that finished.
C5_OnlyWrittenFilesParsed ==
  (ipc = "running" /\ ~ix.force_reindex) => parsed \subseteq dirty

\* C6: a run with force, or after a parser version change, parses every file
\* it enumerated that is there when the loop reaches it, whatever the file
\* records say, by the time it returns or raises.
C6_ForcedRunParsesEveryFile ==
  (ipc \in {"done", "raised"} /\ ix.force_reindex) =>
    \A k \in 1..Len(ix.files) : ix.files[k] \in parsed \cup vanished

\* a step of index_sessions: it begins a run or is taken inside one
IndexStep == ipc = "running" \/ ipc' = "running"

\* C7: no step of index_sessions deletes or modifies an annotation row that
\* is committed, neither in what it commits nor in what its own connection
\* reads; storing a document leaves the annotation row of the session as it
\* is, or creates it with the column defaults when there is none.
C7_AnnotationsKept ==
  [][ IndexStep =>
        /\ \A sid \in Sids :
             committed.user_sessions[sid].present =>
               /\ committed'.user_sessions[sid] = committed.user_sessions[sid]
               /\ tx'.user_sessions[sid] = committed.user_sessions[sid]
        /\ \A sid \in Sids :
             (ipc = "running" /\ ipc' = "running") =>
               tx'.user_sessions[sid] \in {tx.user_sessions[sid], DefaultAnnotation}
        /\ \A sid \in Sids :
             (ipc = "running" /\ tx.user_sessions[sid].present) =>
               tx'.user_sessions[sid] \in {tx.user_sessions[sid], committed.user_sessions[sid]}
    ]_vars

\* a run has parsed again the log of a session whose annotation the user had
\* edited, and has committed
C7_Witness ==
  /\ ipc = "done"
  /\ \E p \in parsed :
       /\ fs[p].exists
       /\ LET doc == parse_codex_session_file(p, fs[p])
          IN /\ doc.kind = "doc"
             /\ committed.sessions[doc.session_id].present
             /\ committed.sessions[doc.session_id].file_path = p
             /\ committed.user_sessions[doc.session_id].present
             /\ committed.user_sessions[doc.session_id] # DefaultAnnotation


---------------------------------------------------------------------------
(* build_prefix_query, lines 673-691. A str is a sequence of characters. *)

MaxQueryLen == 5

\* the characters of the arguments
QueryChars == {"o", "r", "R", "a", "_", "."}

\* the class [A-Za-z0-9_] of line 676, over the characters met here
WordChars ==
  {"a", "o", "r", "A", "O", "R", "_", "b", "c", "q", "x", "t", "m", "f", "d", "F", "P", "g",
   "y", "K", "S", "v", "n", "N", "w", "j", "k"}

\* str.upper() on a character
Upper(c) ==
  CASE c = "a" -> "A"
    [] c = "o" -> "O"
    [] c = "r" -> "R"
    [] OTHER -> c

UpperStr(t) == [k \in 1..Len(t) |-> Upper(t[k])]

\* line 685
Keywords == {<<"A", "N", "D">>, <<"O", "R">>, <<"N", "O", "T">>, <<"N", "E", "A", "R">>}

\* re.findall(r"[A-Za-z0-9_]+", s), line 676; cur is the match being read
RECURSIVE FindAll(_, _)
FindAll(s, cur) ==
  LET closed == IF cur = <<>> THEN <<>> ELSE <<cur>>
  IN IF s = <<>> THEN closed
     ELSE IF Head(s) \in WordChars THEN FindAll(Tail(s), Append(cur, Head(s)))
     ELSE closed \o FindAll(Tail(s), <<>>)

\* the loop of lines 682-690
RECURSIVE QueryTerms(_, _)
QueryTerms(tokens, seen) ==
  IF tokens = <<>> THEN <<>>
  ELSE LET t == Head(tokens)
           is_kw == UpperStr(t) \in Keywords
           term == IF is_kw THEN <<"\"">> \o t \o <<"\"">> ELSE t
       IN IF term \in seen THEN QueryTerms(Tail(tokens), seen)
          ELSE <<IF ~is_kw THEN Append(term, "*") ELSE term>>
               \o QueryTerms(Tail(tokens), seen \cup {term})

build_prefix_query(q) ==
  LET tokens == FindAll(q, <<>>)
  IN IF tokens = <<>> THEN <<>> ELSE Join(QueryTerms(tokens, {}), <<" ">>)

BuildPrefixQuery ==
  /\ qpc = "call"
  /\ built' = build_prefix_query(user_query)
  /\ qpc' = "return"
  /\ UNCHANGED user_query
  /\ UNCHANGED NotQuery

NextQuery == BuildPrefixQuery

InitQuery ==
  /\ user_query \in SeqsUpTo(QueryChars, MaxQueryLen)
  /\ qpc = "call"
  /\ built = <<>>
  /\ ParseIdle /\ IndexIdle /\ CallIdle /\ DebounceIdle /\ BrowserIdle

SpecQuery == InitQuery /\ [][NextQuery]_vars

---------------------------------------------------------------------------
(* The claim about build_prefix_query, under SpecQuery. *)

\* the maximal runs of word characters of q, as pairs of first and last index
IsMaximalRun(q, a, b) ==
  /\ a <= b
  /\ \A k \in a..b : q[k] \in WordChars
  /\ a = 1 \/ q[a - 1] \notin WordChars
  /\ b = Len(q) \/ q[b + 1] \notin WordChars

RunAt(q, a) == CHOOSE b \in a..Len(q) : IsMaximalRun(q, a, b)
RunStarts(q) == {a \in 1..Len(q) : \E b \in a..Len(q) : IsMaximalRun(q, a, b)}
TokenAt(q, a) == SubSeq(q, a, RunAt(q, a))

\* the starts of the first occurrences of the tokens
FirstStarts(q) ==
  {a \in RunStarts(q) : \A c \in RunStarts(q) : c < a => TokenAt(q, c) # TokenAt(q, a)}

\* the term the claim gives a token: the suffix * on every token, a keyword quoted
ClaimedTerm(t) ==
  IF UpperStr(t) \in Keywords THEN <<"\"">> \o t \o <<"\"", "*">> ELSE Append(t, "*")

\* the terms of a query, split at the spaces
RECURSIVE SplitTerms(_, _)
SplitTerms(s, cur) ==
  IF s = <<>> THEN (IF cur = <<>> THEN <<>> ELSE <<cur>>)
  ELSE IF Head(s) = " " THEN (IF cur = <<>> THEN <<>> ELSE <<cur>>) \o SplitTerms(Tail(s), <<>>)
  ELSE SplitTerms(Tail(s), Append(cur, Head(s)))

\* C10: the query returned holds, in order of first occurrence and once each,
\* the maximal runs of letters, digits and underscore of the text, each with
\* the suffix *, a keyword quoted; a text with no token gives the empty query.
C10_EveryTokenPrefixed ==
  qpc = "return" =>
    LET terms == SplitTerms(built, <<>>)
        starts == FirstStarts(user_query)
    IN /\ Len(terms) = Cardinality(starts)
       /\ \A a \in starts :
            terms[Cardinality({c \in starts : c <= a})] = ClaimedTerm(TokenAt(user_query, a))
       /\ starts = {} => built = <<>>


---------------------------------------------------------------------------
(* _preview_build_render_lines, lines 816-848. A line is a sequence of
   characters; the browser passes lines that str.splitlines() produced, a
   width of at least 1 and an offset of at least 0 (lines 1369 and 1379-1384). *)

MaxRawLines == 3

PreviewLines ==
  { <<>>, <<"a">>, <<"a", "b">>, <<"x", "y">>, <<"a", "b", "c">>,
    <<"a", "b", "c", "d", "e">> }
PreviewWidths == {1, 2, 3}
PreviewOffsets == {0, 1, 2, 6}

Min(a, b) == IF a <= b THEN a ELSE b

\* s[a:b], for 0 <= a
Slice(s, a, b) == SubSeq(s, a + 1, Min(b, Len(s)))

\* line.replace("\r", ""), line 837
RECURSIVE RemoveCR(_)
RemoveCR(s) ==
  IF s = <<>> THEN <<>>
  ELSE (IF Head(s) = "\r" THEN <<>> ELSE <<Head(s)>>) \o RemoveCR(Tail(s))

\* [s[i : i + w] for i in range(0, len(s), w)], lines 843-844
RECURSIVE Chunks(_, _)
Chunks(s, w) ==
  IF s = <<>> THEN <<>>
  ELSE <<Slice(s, 0, w)>> \o Chunks(Slice(s, w, Len(s)), w)

\* RenderLine without the branch of lines 840-842
RenderLine_NoEmptyLine(line, w, wrap, x) ==
  LET t == RemoveCR(line)
  IN IF wrap THEN Chunks(t, w) ELSE <<Slice(IF x # 0 THEN Slice(t, x, Len(t)) ELSE t, 0, w)>>

\* the render lines of one raw line, lines 837-848
RenderLine(line, w, wrap, x) ==
  LET t == RemoveCR(line)
  IN IF wrap
     THEN (IF t = <<>> THEN << <<>> >> ELSE Chunks(t, w))
     ELSE <<Slice(IF x # 0 THEN Slice(t, x, Len(t)) ELSE t, 0, w)>>

\* the loop of line 835, with the two lists it appends to
RECURSIVE BuildRenderLines(_, _, _, _, _, _)
BuildRenderLines(raw_lines, w, wrap, x, rendered, raw_to_render) ==
  IF raw_lines = <<>> THEN [rendered |-> rendered, raw_to_render |-> raw_to_render]
  ELSE BuildRenderLines(Tail(raw_lines), w, wrap, x,
                        rendered \o RenderLine(Head(raw_lines), w, wrap, x),
                        Append(raw_to_render, Len(rendered)))

_preview_build_render_lines(raw_lines, width, wrap, x_offset) ==
  BuildRenderLines(raw_lines, Max(1, width), wrap, Max(0, x_offset), <<>>, <<>>)

PreviewBuildRenderLines ==
  /\ cpc = "call"
  /\ ret' = _preview_build_render_lines(cargs.raw_lines, cargs.width, cargs.wrap, cargs.x_offset)
  /\ cpc' = "return"
  /\ UNCHANGED cargs
  /\ UNCHANGED NotCall

NextPreview == PreviewBuildRenderLines

InitPreview ==
  /\ cargs \in [raw_lines : SeqsUpTo(PreviewLines, MaxRawLines), width : PreviewWidths,
                wrap : BOOLEAN, x_offset : PreviewOffsets]
  /\ cpc = "call"
  /\ ret = <<>>
  /\ ParseIdle /\ IndexIdle /\ QueryIdle /\ DebounceIdle /\ BrowserIdle

SpecPreview == InitPreview /\ [][NextPreview]_vars

\* the number of render lines the claim gives a raw line
ClaimedCount(line, w, wrap) ==
  IF wrap /\ line # <<>> THEN (Len(line) + w - 1) \div w ELSE 1

\* the number of render lines the claim gives the raw lines before line i
RECURSIVE ClaimedStart(_, _, _, _)
ClaimedStart(raw, w, wrap, i) ==
  IF i <= 1 THEN 0
  ELSE ClaimedStart(raw, w, wrap, i - 1) + ClaimedCount(raw[i - 1], w, wrap)

\* C20: in wrap mode a raw line becomes its consecutive chunks of width
\* characters, the last one possibly shorter, an empty line one empty render
\* line, whatever x_offset is; in no-wrap mode it becomes the one render line
\* raw[x_offset : x_offset + width]; raw_to_render[i] is the index of the first
\* render line of raw line i.
C20_RenderLinesAndMap ==
  cpc = "return" =>
    LET raw == cargs.raw_lines
        w == cargs.width
        wrap == cargs.wrap
    IN /\ Len(ret.raw_to_render) = Len(raw)
       /\ Len(ret.rendered) = ClaimedStart(raw, w, wrap, Len(raw) + 1)
       /\ \A i \in 1..Len(raw) :
            /\ ret.raw_to_render[i] = ClaimedStart(raw, w, wrap, i)
            /\ \A k \in 0..(ClaimedCount(raw[i], w, wrap) - 1) :
                 LET from == IF wrap THEN k * w ELSE cargs.x_offset
                     n == Max(0, Min(w, Len(raw[i]) - from))
                 IN ret.rendered[ClaimedStart(raw, w, wrap, i) + k + 1]
                      = [c \in 1..n |-> raw[i][from + c]]

\* C20, its case: the example of the claim, wrapped at width 2 with an offset
C20_Witness ==
  /\ cpc = "return"
  /\ cargs.raw_lines = << <<"a", "b", "c", "d", "e">>, <<>>, <<"x", "y">> >>
  /\ cargs.width = 2 /\ cargs.wrap /\ cargs.x_offset = 1
  /\ ret.rendered = << <<"a", "b">>, <<"c", "d">>, <<"e">>, <<>>, <<"x", "y">> >>
  /\ ret.raw_to_render = <<0, 3, 4>>


---------------------------------------------------------------------------
(* Input events. A key is named by its character when it is printable (codes
   32 to 126), by its code when it is a control character, and by its curses
   name otherwise. *)

PrintableKeys ==
  {"a", "b", "c", "q", "/", "*", " ", "x", "t", "m", "f", "d", "F", "P", "g", "R",
   "y", "o", "K", "S", "v", "n", "N", "w", "j", "k"}
BackspaceKeys == {"KEY_BACKSPACE", "127", "8"}
EnterKeys == {"KEY_ENTER", "10", "13"}
OtherKeys ==
  {"9", "27", "21", "16", "14", "KEY_DC", "KEY_LEFT", "KEY_RIGHT", "KEY_UP", "KEY_DOWN",
   "KEY_NPAGE", "KEY_PPAGE", "KEY_HOME", "KEY_END", "KEY_F1"}
Keys == PrintableKeys \cup BackspaceKeys \cup EnterKeys \cup OtherKeys

\* query[:cursor] + ch + query[cursor:]
InsertAt(q, cursor, ch) == Slice(q, 0, cursor) \o <<ch>> \o Slice(q, cursor, Len(q))
\* query[:at] + query[at + 1:]
DeleteAt(q, at) == Slice(q, 0, at) \o Slice(q, at + 1, Len(q))

---------------------------------------------------------------------------
(* _apply_query_key(query, cursor, key, allow_cursor_move), the query editor
   of the browser as a function. The function is not in codex_sessions.py;
   it is modelled from TestQueryInput and the query-edit paragraph of the
   specification. *)

MaxInputLen == 3
InputChars == {"a", "b"}
InputKeys == {"c", "q", " ", "127", "KEY_BACKSPACE", "21", "KEY_LEFT", "KEY_RIGHT", "KEY_DC", "KEY_UP", "9"}

Edited(q, cursor, handled, changed) ==
  [query |-> q, cursor |-> cursor, handled |-> handled, changed |-> changed]

\* _apply_query_key that edits at the cursor whatever allow_cursor_move is
_apply_query_key_AtCursor(query, cursor, key, allow_cursor_move) ==
  CASE key \in PrintableKeys -> Edited(InsertAt(query, cursor, key), cursor + 1, TRUE, TRUE)
    [] key \in BackspaceKeys ->
         IF cursor > 0 THEN Edited(DeleteAt(query, cursor - 1), cursor - 1, TRUE, TRUE)
         ELSE Edited(query, cursor, TRUE, FALSE)
    [] key = "21" -> Edited(<<>>, 0, TRUE, TRUE)
    [] key = "KEY_LEFT" -> Edited(query, Max(0, cursor - 1), TRUE, FALSE)
    [] OTHER -> Edited(query, cursor, FALSE, FALSE)

_apply_query_key(query, cursor, key, allow_cursor_move) ==
  CASE key = "21" -> Edited(<<>>, 0, TRUE, TRUE)
    [] key \in PrintableKeys ->
         IF allow_cursor_move
         THEN Edited(InsertAt(query, cursor, key), cursor + 1, TRUE, TRUE)
         ELSE Edited(Append(query, key), Len(query) + 1, TRUE, TRUE)
    [] key \in BackspaceKeys ->
         IF allow_cursor_move
         THEN (IF cursor > 0
               THEN Edited(DeleteAt(query, cursor - 1), cursor - 1, TRUE, TRUE)
               ELSE Edited(query, cursor, TRUE, FALSE))
         ELSE (IF query # <<>>
               THEN Edited(Slice(query, 0, Len(query) - 1), Len(query) - 1, TRUE, TRUE)
               ELSE Edited(query, 0, TRUE, FALSE))
    [] key = "KEY_DC" /\ allow_cursor_move ->
         IF cursor < Len(query) THEN Edited(DeleteAt(query, cursor), cursor, TRUE, TRUE)
         ELSE Edited(query, cursor, TRUE, FALSE)
    [] key = "KEY_LEFT" /\ allow_cursor_move -> Edited(query, Max(0, cursor - 1), TRUE, FALSE)
    [] key = "KEY_RIGHT" /\ allow_cursor_move ->
         Edited(query, Min(Len(query), cursor + 1), TRUE, FALSE)
    [] OTHER -> Edited(query, cursor, FALSE, FALSE)

ApplyQueryKey ==
  /\ cpc = "call"
  /\ ret' = _apply_query_key(cargs.query, cargs.cursor, cargs.key, cargs.allow_cursor_move)
  /\ cpc' = "return"
  /\ UNCHANGED cargs
  /\ UNCHANGED NotCall

NextQueryKey == ApplyQueryKey

InitQueryKey ==
  /\ \E q \in SeqsUpTo(InputChars, MaxInputLen) :
       cargs \in [query : {q}, cursor : 0..Len(q), key : InputKeys, allow_cursor_move : BOOLEAN]
  /\ cpc = "call"
  /\ ret = <<>>
  /\ ParseIdle /\ IndexIdle /\ QueryIdle /\ DebounceIdle /\ BrowserIdle

SpecQueryKey == InitQueryKey /\ [][NextQueryKey]_vars

---------------------------------------------------------------------------
(* _Debounce(delay): mark(now), clear(), due(now) and pending. The class is
   not in codex_sessions.py; it is modelled from TestDebounce and from the
   debounce sentences of the specification. Times are hundredths of a
   second, so the delay 0.1 of the tests is 10. *)

DebounceDelay == 10
MaxClock == 20

\* _Debounce(delay)
NewDebounce(delay) == [delay |-> delay, pending |-> FALSE, last |-> 0]

\* mark that keeps the window of the first mark while one is pending
mark_KeepWindow(d, now) == IF d.pending THEN d ELSE [d EXCEPT !.pending = TRUE, !.last = now]

\* d.mark(now)
mark(d, now) == [d EXCEPT !.pending = TRUE, !.last = now]

\* d.clear()
clear(d) == [d EXCEPT !.pending = FALSE]

\* d.due(now)
due(d, now) == d.pending /\ now - d.last >= d.delay

DebounceMark ==
  /\ deb' = mark(deb, clock)
  /\ marked' = clock
  /\ UNCHANGED clock
  /\ UNCHANGED NotDebounce

DebounceClear ==
  /\ deb' = clear(deb)
  /\ marked' = None
  /\ UNCHANGED clock
  /\ UNCHANGED NotDebounce

\* time passes
DebounceTick ==
  /\ clock < MaxClock
  /\ clock' = clock + 1
  /\ UNCHANGED <<deb, marked>>
  /\ UNCHANGED NotDebounce

NextDebounce == DebounceMark \/ DebounceClear \/ DebounceTick

InitDebounce ==
  /\ deb = NewDebounce(DebounceDelay)
  /\ clock = 0
  /\ marked = None
  /\ ParseIdle /\ IndexIdle /\ QueryIdle /\ CallIdle /\ BrowserIdle

SpecDebounce == InitDebounce /\ [][NextDebounce]_vars

\* C14: after a mark the debounce is pending, it is not due at a time less
\* than the delay after the most recent mark and is due at a time more than
\* the delay after it; after clear, and before any mark, it is not pending and
\* is due at no time.
C14_DebounceWindow ==
  IF marked = None
  THEN ~deb.pending /\ \A now \in 0..(MaxClock + DebounceDelay + 1) : ~due(deb, now)
  ELSE /\ deb.pending
       /\ \A now \in marked..(MaxClock + DebounceDelay + 1) :
            /\ now - marked < DebounceDelay => ~due(deb, now)
            /\ now - marked > DebounceDelay => due(deb, now)

\* C14, its case: marked again at 0.06, asked at 0.17: due, and not due at 0.15
C14_Witness ==
  /\ marked = 6 /\ clock = 17
  /\ due(deb, clock) /\ ~due(deb, 15)


---------------------------------------------------------------------------
(* search_sessions, list_sessions and the browser's _fetch_rows.  The      *)
(* database is a store of sessions and user_sessions rows; what SQLite's   *)
(* full-text engine answers for the query (which sessions MATCH, and the   *)
(* bm25 of each) is an input, fts.  Scores are kept exactly: bm25 is in    *)
(* hundredths and a score is in units of 1 / (100 * 86400).  The columns   *)
(* repo_branch and repo_sha, which nothing here reads, are left out.       *)

SecondsPerDay == 86400
RecencyWeightPercent == 15

SearchSids == {"s1", "s2", "s3"}
UpdatedAts == {0, SecondsPerDay}
Bm25s == {-100, -90}
SearchLimits == {1, 3}
FetchLimit == 2
SearchNows == {None, 0, 2 * SecondsPerDay}
SearchTime == 3 * SecondsPerDay

TitleOf(sid) == CASE sid = "s1" -> <<"F">> [] sid = "s2" -> <<" ", "f">> [] OTHER -> <<>>
CwdOf(sid) == CASE sid = "s1" -> <<"a", "b">> [] sid = "s2" -> <<"b">> [] OTHER -> <<"A">>
RepoOf(sid) == CASE sid = "s1" -> <<"r">> [] sid = "s2" -> <<>> [] OTHER -> <<"r">>

\* a row of sessions
SessionRow(sid, updated_at) ==
  [present |-> TRUE, created_at |-> 0, updated_at |-> updated_at, cwd |-> CwdOf(sid),
   title |-> TitleOf(sid), preview |-> <<"p">>, file_path |-> sid, repo_name |-> RepoOf(sid)]

\* the rows of user_sessions: none, the default one, a pinned and tagged one
Annotations ==
  {NoRow,
   [present |-> TRUE, pinned |-> 0, tags |-> <<>>, note |-> <<>>],
   [present |-> TRUE, pinned |-> 1, tags |-> <<"a">>, note |-> <<>>]}

SearchStores ==
  {[sessions |-> [sid \in SearchSids |-> SessionRow(sid, u[sid])], user_sessions |-> a] :
     u \in [SearchSids -> UpdatedAts],
     a \in {f \in [SearchSids -> Annotations] : f["s3"] = NoRow}}

\* the answers of the full-text engine: a syntax error, or for each session
\* whether it matches, its bm25 and its snippet
FtsHits == {[match |-> FALSE, bm25 |-> 0, snippet |-> <<>>]} \cup
           {[match |-> TRUE, bm25 |-> b, snippet |-> <<"[", "a", "]">>] : b \in Bm25s}
FtsAnswers ==
  {[error |-> FALSE, hit |-> h] : h \in {f \in [SearchSids -> FtsHits] : f["s3"].bm25 # -90}} \cup
  {[error |-> TRUE, hit |-> [sid \in SearchSids |-> [match |-> FALSE, bm25 |-> 0, snippet |-> <<>>]]]}

\* now_val, line 568
NowVal(now, time) == IF now = None \/ now = 0 THEN time ELSE now

\* the score without its recency term
Score_NoRecency(bm25, now_val, updated_at) == bm25 * SecondsPerDay

\* the score column of line 579, in units of 1 / (100 * SecondsPerDay)
Score(bm25, now_val, updated_at) ==
  bm25 * SecondsPerDay + (now_val - updated_at) * RecencyWeightPercent

\* COALESCE(u.pinned, 0), COALESCE(u.tags, '')
Pinned(store, sid) == IF store.user_sessions[sid].present THEN store.user_sessions[sid].pinned ELSE 0
Tags(store, sid) == IF store.user_sessions[sid].present THEN store.user_sessions[sid].tags ELSE <<>>
Note(store, sid) == IF store.user_sessions[sid].present THEN store.user_sessions[sid].note ELSE <<>>

\* SearchRow, lines 548-563, from the columns of a selected row
SearchRow(store, sid, snippet, score) ==
  LET s == store.sessions[sid]
  IN [session_id |-> sid, created_at |-> s.created_at, updated_at |-> s.updated_at,
      cwd |-> s.cwd, title |-> s.title, snippet |-> snippet, score |-> score,
      pinned |-> Pinned(store, sid), tags |-> Tags(store, sid), note |-> Note(store, sid),
      file_path |-> s.file_path, repo_name |-> s.repo_name]

\* LIMIT n
Limit(q, n) == IF n < 0 THEN q ELSE SubSeq(q, 1, Min(n, Len(q)))

\* ORDER BY pinned DESC, score
SearchOrder(a, b) == a.pinned > b.pinned \/ (a.pinned = b.pinned /\ a.score <= b.score)

\* an order by pinned, then oldest first
ListOrder_OldestFirst(a, b) ==
  a.pinned > b.pinned \/ (a.pinned = b.pinned /\ a.updated_at <= b.updated_at)

\* ORDER BY pinned DESC, s.updated_at DESC
ListOrder(a, b) == a.pinned > b.pinned \/ (a.pinned = b.pinned /\ a.updated_at >= b.updated_at)

\* the orders in which the rows S can come out of ORDER BY: every arrangement
\* in which each row may stand before the rows after it
Orderings(S, order) ==
  LET Before(a, b) == IF order = "search" THEN SearchOrder(a, b) ELSE ListOrder(a, b)
  IN {q \in [1..Cardinality(S) -> S] :
        \A i, j \in 1..Cardinality(S) : i < j => q[i] # q[j] /\ Before(q[i], q[j])}

\* the lists search_sessions can return when the statement does not fail
search_sessions(store, fts, limit, now_val) ==
  LET selected ==
        {SearchRow(store, sid, fts.hit[sid].snippet,
                   Score(fts.hit[sid].bm25, now_val, store.sessions[sid].updated_at)) :
           sid \in {x \in DOMAIN store.sessions : store.sessions[x].present /\ fts.hit[x].match}}
  IN {Limit(q, limit) : q \in Orderings(selected, "search")}

\* the lists list_sessions can return
list_sessions(store, limit) ==
  LET selected ==
        {SearchRow(store, sid, store.sessions[sid].preview, 0) :
           sid \in {x \in DOMAIN store.sessions : store.sessions[x].present}}
  IN {Limit(q, limit) : q \in Orderings(selected, "list")}


\* str.lower() on a character
Lower(c) ==
  CASE c = "A" -> "a"
    [] c = "F" -> "f"
    [] c = "R" -> "r"
    [] OTHER -> c

LowerStr(t) == [k \in 1..Len(t) |-> Lower(t[k])]

\* re.sub(r"\s+", " ", t)
RECURSIVE CollapseSpaces(_)
CollapseSpaces(t) ==
  IF t = <<>> THEN <<>>
  ELSE IF Head(t) \in Whitespace
       THEN <<" ">> \o CollapseSpaces(LStrip(t))
       ELSE <<Head(t)>> \o CollapseSpaces(Tail(t))

\* a key that is the title as it stands
GroupKey_Raw(r) == IF r.title = <<>> THEN <<r.session_id>> ELSE r.title

\* the key of a row in _group_rows, lines 1183-1185
GroupKey(r) ==
  LET key == CollapseSpaces(LowerStr(Strip(r.title)))
  IN IF key = <<>> THEN <<r.session_id>> ELSE key

\* the decimal spelling of a small number
Digit(n) == CASE n = 0 -> "0" [] n = 1 -> "1" [] n = 2 -> "2" [] OTHER -> "3"

\* the loop of lines 1182-1191: the groups in order of first appearance, each
\* with its key, its best row and its size
RECURSIVE Grouped(_, _)
Grouped(rows, acc) ==
  IF rows = <<>> THEN acc
  ELSE LET r == Head(rows)
           at == {i \in 1..Len(acc) : acc[i].key = GroupKey(r)}
       IN IF at = {}
          THEN Grouped(Tail(rows), Append(acc, [key |-> GroupKey(r), best |-> r, n |-> 1]))
          ELSE LET i == CHOOSE x \in at : TRUE
                   cur == acc[i].best
                   best == IF r.updated_at >= cur.updated_at THEN r ELSE cur
               IN Grouped(Tail(rows), [acc EXCEPT ![i] = [key |-> @.key, best |-> best, n |-> @.n + 1]])

\* the sort key of a grouping that forgets the pins
GroupKeyLess_NoPinned(a, b) == a.updated_at < b.updated_at

\* the sort key of line 1198: (pinned, updated_at)
GroupKeyLess(a, b) ==
  a.pinned < b.pinned \/ (a.pinned = b.pinned /\ a.updated_at < b.updated_at)

\* out.sort(key=..., reverse=True) of line 1198: stable, greatest key first
RECURSIVE SortReverse(_)
SortReverse(rows) ==
  IF rows = <<>> THEN <<>>
  ELSE LET sorted == SortReverse(SubSeq(rows, 1, Len(rows) - 1))
           r == rows[Len(rows)]
           \* r goes after the last row that is not less than it
           after == {i \in 1..Len(sorted) : ~GroupKeyLess(sorted[i], r)}
           k == IF after = {} THEN 0 ELSE CHOOSE i \in after : \A j \in after : j <= i
       IN SubSeq(sorted, 1, k) \o <<r>> \o SubSeq(sorted, k + 1, Len(sorted))

\* lines 1180-1199
_group_rows(rows) ==
  LET groups == Grouped(rows, <<>>)
      annotated == [i \in 1..Len(groups) |->
                IF groups[i].n <= 1 THEN groups[i].best
                ELSE [groups[i].best EXCEPT
                        !.title = @ \o <<" ", "(", "+", Digit(groups[i].n - 1), ")">>]]
  IN SortReverse(annotated)

\* filters applied to the rows that grouping has left
_apply_filters_GroupFirst(rows, repo, cwd, tag, pinned_only, group_mode) ==
  LET Kept(r) ==
        /\ ~(pinned_only /\ r.pinned = 0)
        /\ ~(repo # <<>> /\ ~Contains(LowerStr(r.repo_name), LowerStr(repo)))
        /\ ~(cwd # <<>> /\ ~Contains(LowerStr(r.cwd), LowerStr(cwd)))
        /\ ~(tag # <<>> /\ ~Contains(LowerStr(r.tags), LowerStr(tag)))
  IN SelectSeq(IF group_mode THEN _group_rows(rows) ELSE rows, Kept)

\* lines 1201-1215
_apply_filters(rows, repo, cwd, tag, pinned_only, group_mode) ==
  LET Kept(r) ==
        /\ ~(pinned_only /\ r.pinned = 0)
        /\ ~(repo # <<>> /\ ~Contains(LowerStr(r.repo_name), LowerStr(repo)))
        /\ ~(cwd # <<>> /\ ~Contains(LowerStr(r.cwd), LowerStr(cwd)))
        /\ ~(tag # <<>> /\ ~Contains(LowerStr(r.tags), LowerStr(tag)))
      kept == SelectSeq(rows, Kept)
  IN IF group_mode THEN _group_rows(kept) ELSE kept

\* the rows of a fetch, with the full-text queries it issued
Fetched(rows, issued) == [raised |-> "", rows |-> rows, issued |-> issued]

\* a fetch that lets the engine's error out
CatchOperationalError_Reraise(f) == f

\* lines 1227-1228: except sqlite3.OperationalError: return []
CatchOperationalError(f) ==
  IF f.raised = "OperationalError" THEN Fetched(<<>>, f.issued) ELSE f

\* lines 1217-1228: what _fetch_rows can return
_fetch_rows(store, fts, limit, time, q, repo, cwd, tag, pinned_only, group_mode) ==
  LET stripped == Strip(q)
      query == build_prefix_query(stripped)
      browse == {Fetched(_apply_filters(base, repo, cwd, tag, pinned_only, group_mode), <<>>) :
                   base \in list_sessions(store, limit)}
  IN IF stripped = <<>> \/ stripped = <<"*">> THEN browse
     ELSE IF query = <<>> THEN browse
     ELSE IF fts.error
          THEN {CatchOperationalError([raised |-> "OperationalError", rows |-> <<>>,
                                       issued |-> <<query>>])}
     ELSE {Fetched(_apply_filters(base, repo, cwd, tag, pinned_only, group_mode), <<query>>) :
             base \in search_sessions(store, fts, limit, NowVal(None, time))}


\* what a call leaves: an exception, or a list with the full-text queries issued
Raises(exc) == [raised |-> exc, rows |-> <<>>, issued |-> <<>>]
Returns(rows, issued) == [raised |-> "", rows |-> rows, issued |-> issued]

\* the inputs of the browser's fetches
FetchQueries == {<<>>, <<" ">>, <<"*">>, <<" ", "*">>, <<".">>, <<"a">>}
FetchFilters ==
  {[repo |-> <<>>, cwd |-> <<>>, tag |-> <<>>],
   [repo |-> <<"R">>, cwd |-> <<>>, tag |-> <<>>],
   [repo |-> <<>>, cwd |-> <<"A">>, tag |-> <<>>],
   [repo |-> <<>>, cwd |-> <<>>, tag |-> <<"a">>],
   [repo |-> <<"R">>, cwd |-> <<"A">>, tag |-> <<"a">>]}
NoFilter == [repo |-> <<>>, cwd |-> <<>>, tag |-> <<>>]

\* the keyword arguments of a call of search_sessions
SearchKwargs == {{}, {<<"include_snippet", FALSE>>}}

\* a call: the function, the database, the engine's answer, and the arguments
Call(fn, store, fts, limit, now, kwargs, q, filter, pinned_only, group_mode) ==
  [fn |-> fn, store |-> store, fts |-> fts, limit |-> limit, now |-> now, time |-> SearchTime,
   kwargs |-> kwargs, q |-> q, filter |-> filter, pinned_only |-> pinned_only,
   group_mode |-> group_mode]

\* search_sessions(db_path, query, limit, now, **kwargs), lines 565-618
SearchSessions ==
  /\ cpc = "call" /\ cargs.fn = "search_sessions"
  /\ IF cargs.kwargs # {}
     THEN ret' = Raises("TypeError")
     ELSE IF cargs.fts.error
          THEN ret' = Raises("OperationalError")
          ELSE \E rows \in search_sessions(cargs.store, cargs.fts, cargs.limit,
                                           NowVal(cargs.now, cargs.time)) :
                 ret' = Returns(rows, <<cargs.q>>)
  /\ cpc' = "return"
  /\ UNCHANGED cargs
  /\ UNCHANGED NotCall

\* list_sessions(db_path, limit), lines 621-670
ListSessions ==
  /\ cpc = "call" /\ cargs.fn = "list_sessions"
  /\ \E rows \in list_sessions(cargs.store, cargs.limit) : ret' = Returns(rows, <<>>)
  /\ cpc' = "return"
  /\ UNCHANGED cargs
  /\ UNCHANGED NotCall

\* _fetch_rows(q, repo, cwd, tag, pinned_only, group_mode), lines 1217-1228
FetchRows ==
  /\ cpc = "call" /\ cargs.fn = "_fetch_rows"
  /\ \E f \in _fetch_rows(cargs.store, cargs.fts, cargs.limit, cargs.time, cargs.q,
                          cargs.filter.repo, cargs.filter.cwd, cargs.filter.tag,
                          cargs.pinned_only, cargs.group_mode) :
       ret' = f
  /\ cpc' = "return"
  /\ UNCHANGED cargs
  /\ UNCHANGED NotCall

NextSearch == SearchSessions \/ ListSessions \/ FetchRows

InitSearch ==
  /\ \E store \in SearchStores :
       \/ \E fts \in FtsAnswers, limit \in SearchLimits, now \in SearchNows, kw \in SearchKwargs :
            cargs = Call("search_sessions", store, fts, limit, now, kw, <<"a", "*">>,
                         NoFilter, FALSE, FALSE)
       \/ \E fts \in {a \in FtsAnswers : a.error}, limit \in SearchLimits :
            cargs = Call("list_sessions", store, fts, limit, None, {}, <<>>, NoFilter, FALSE, FALSE)
       \/ \E fts \in FtsAnswers, q \in FetchQueries, filter \in FetchFilters,
             pinned_only \in BOOLEAN, group_mode \in BOOLEAN :
            cargs = Call("_fetch_rows", store, fts, FetchLimit, None, {}, q, filter,
                         pinned_only, group_mode)
  /\ cpc = "call"
  /\ ret = <<>>
  /\ ParseIdle /\ IndexIdle /\ QueryIdle /\ DebounceIdle /\ BrowserIdle

SpecSearch == InitSearch /\ [][NextSearch]_vars

\* the score the claim gives a row, from the engine's bm25 for its session
ClaimedScore(sid) ==
  cargs.fts.hit[sid].bm25 * SecondsPerDay
    + (NowVal(cargs.now, cargs.time) - cargs.store.sessions[sid].updated_at) * RecencyWeightPercent

\* C12: search_sessions returns rows of equal pinned status in ascending
\* order of score, the score of a row being its relevance plus 0.15 for each
\* day between its update and now; two returned rows of equal relevance
\* updated one day apart have scores 0.15 apart, the more recent the lower.
C12_AscendingScoreWithRecency ==
  (cpc = "return" /\ cargs.fn = "search_sessions" /\ ret.raised = "") =>
    /\ \A i \in 1..Len(ret.rows) : ret.rows[i].score = ClaimedScore(ret.rows[i].session_id)
    /\ \A i, j \in 1..Len(ret.rows) :
         /\ (i < j /\ ret.rows[i].pinned = ret.rows[j].pinned) =>
              ret.rows[i].score <= ret.rows[j].score
         /\ (/\ cargs.fts.hit[ret.rows[i].session_id].bm25 = cargs.fts.hit[ret.rows[j].session_id].bm25
             /\ ret.rows[i].updated_at = ret.rows[j].updated_at + SecondsPerDay) =>
              ret.rows[i].score = ret.rows[j].score - RecencyWeightPercent * SecondsPerDay

\* C12, its case: two unpinned rows of equal relevance, one a day more recent,
\* come back with the more recent first although it is not the first session
C12_Witness ==
  /\ cpc = "return" /\ cargs.fn = "search_sessions" /\ ret.raised = ""
  /\ Len(ret.rows) >= 2
  /\ ret.rows[1].session_id = "s2" /\ ret.rows[2].session_id = "s1"
  /\ ret.rows[1].pinned = 0 /\ ret.rows[2].pinned = 0
  /\ cargs.fts.hit["s1"].bm25 = cargs.fts.hit["s2"].bm25
  /\ ret.rows[1].updated_at = ret.rows[2].updated_at + SecondsPerDay


\* C19: called with include_snippet=False, search_sessions returns the rows
\* that match the query, in the order it returns them with snippets, each
\* with an empty snippet.
C19_IncludeSnippetFalse ==
  (/\ cpc = "return" /\ cargs.fn = "search_sessions"
   /\ <<"include_snippet", FALSE>> \in cargs.kwargs
   /\ ~cargs.fts.error) =>
    /\ ret.raised = ""
    /\ \E with \in search_sessions(cargs.store, cargs.fts, cargs.limit,
                                   NowVal(cargs.now, cargs.time)) :
         /\ Len(ret.rows) = Len(with)
         /\ \A i \in 1..Len(with) :
              /\ ret.rows[i].session_id = with[i].session_id
              /\ ret.rows[i].snippet = <<>>


\* C11: in every list that search_sessions, list_sessions or the browser's
\* fetch (any query, filter, pinned-only and group mode) produces, no
\* unpinned row stands before a pinned row.
C11_PinnedRowsFirst ==
  (cpc = "return" /\ ret.raised = "") =>
    \A i, j \in 1..Len(ret.rows) :
      (i < j /\ ret.rows[j].pinned # 0) => ret.rows[i].pinned # 0

\* C11, its case: the browser's grouped list holds a pinned row before an
\* unpinned row that is more recent
C11_Witness ==
  /\ cpc = "return" /\ cargs.fn = "_fetch_rows" /\ cargs.group_mode /\ ret.raised = ""
  /\ Len(ret.rows) = 2
  /\ ret.rows[1].pinned = 1 /\ ret.rows[2].pinned = 0
  /\ ret.rows[1].updated_at < ret.rows[2].updated_at


\* a query the claim sends to the browse path: no character of a token in it
ClaimedBrowse(q) == \A i \in 1..Len(q) : q[i] \notin WordChars

\* rows in the order pinned descending, then updated_at descending
ClaimedListOrder(rows) ==
  \A i, j \in 1..Len(rows) :
    i < j => \/ rows[i].pinned > rows[j].pinned
             \/ rows[i].pinned = rows[j].pinned /\ rows[i].updated_at >= rows[j].updated_at

\* C13: list_sessions returns at most limit rows, those that come first by
\* pinned descending then updated_at descending, in that order and each with
\* score 0; for a query that is empty, "*" or without a token the browser's
\* fetch issues no full-text query and its rows are such rows.
C13_BrowsePath ==
  /\ (cpc = "return" /\ cargs.fn = "list_sessions") =>
       /\ ret.raised = "" /\ ret.issued = <<>>
       /\ Len(ret.rows) = Min(cargs.limit, Cardinality(SearchSids))
       /\ ClaimedListOrder(ret.rows)
       /\ \A i \in 1..Len(ret.rows) : ret.rows[i].score = 0
       /\ \A sid \in SearchSids \ {ret.rows[i].session_id : i \in 1..Len(ret.rows)} :
            \A i \in 1..Len(ret.rows) :
              \/ ret.rows[i].pinned > Pinned(cargs.store, sid)
              \/ /\ ret.rows[i].pinned = Pinned(cargs.store, sid)
                 /\ ret.rows[i].updated_at >= cargs.store.sessions[sid].updated_at
  /\ (cpc = "return" /\ cargs.fn = "_fetch_rows" /\ ClaimedBrowse(cargs.q)) =>
       /\ ret.raised = "" /\ ret.issued = <<>>
       /\ Len(ret.rows) <= cargs.limit
       /\ ClaimedListOrder(ret.rows)
       /\ \A i \in 1..Len(ret.rows) : ret.rows[i].score = 0

\* C13, its case: a query without a token, more sessions than the limit, and
\* the engine ready to fail on any query it is sent
C13_Witness ==
  /\ cpc = "return" /\ cargs.fn = "_fetch_rows" /\ cargs.q = <<".">>
  /\ cargs.fts.error /\ cargs.filter = NoFilter /\ ~cargs.group_mode
  /\ Len(ret.rows) = 2
  /\ ret.rows[1].pinned = 0 /\ ret.rows[1].updated_at > ret.rows[2].updated_at


---------------------------------------------------------------------------
(* The live browser, _run_curses_live._ui: one step is one key read by      *)
(* getch, its handling, and the drawing that follows.  The terminal is      *)
(* large enough (lines 1423-1429 do not apply).  ui holds the locals of     *)
(* _ui and the database; the state of the preview pane (offsets, wrap,      *)
(* matches), the status message and the clipboard are not kept.  A prompt   *)
(* (keys t, m, f, d, F) is answered within the step of its key.             *)

MaxKeys == 3
Visible == 2
Running == "running"

BrowserKeys ==
  {"a", "q", "/", " ", "x", "P", "g", "j", "k", "o",
   "9", "27", "21", "127", "10", "KEY_DC", "KEY_LEFT", "KEY_RIGHT", "KEY_UP", "KEY_DOWN",
   "KEY_NPAGE", "KEY_PPAGE", "KEY_HOME", "KEY_END", "KEY_F1"}

\* the databases the browser is opened on
BrowserStores ==
  {st \in SearchStores :
     /\ st.sessions["s1"].updated_at = 0
     /\ st.sessions["s2"].updated_at = SecondsPerDay
     /\ st.sessions["s3"].updated_at = 0
     /\ ~st.user_sessions["s2"].present}

\* the words of the indexed text of a session
ContentWords(sid) ==
  CASE sid = "s1" -> {<<"a">>}
    [] sid = "s2" -> {<<"a", "q">>}
    [] OTHER -> {<<"x">>}

\* what the full-text engine answers for the query built from q: the sessions
\* that have, for every token of q, a word that starts with it
BrowserFts(q) ==
  LET tokens == FindAll(Strip(q), <<>>)
      Matches(sid) ==
        \A i \in 1..Len(tokens) :
          \E w \in ContentWords(sid) :
            Len(tokens[i]) <= Len(w) /\ SubSeq(w, 1, Len(tokens[i])) = tokens[i]
  IN [error |-> FALSE,
      hit |-> [sid \in SearchSids |->
                 IF Matches(sid) THEN [match |-> TRUE, bm25 |-> -100, snippet |-> <<"[", "a", "]">>]
                 ELSE [match |-> FALSE, bm25 |-> 0, snippet |-> <<>>]]]

\* the engine answers, or raises (a locked store)
BrowserEngine(q) == {BrowserFts(q), [BrowserFts(q) EXCEPT !.error = TRUE]}

\* a clamp that leaves the index alone
_clamp_None(u) == u

\* lines 1299-1306
_clamp(u) ==
  LET i == IF u.rows # <<>> THEN Max(0, Min(u.idx, Len(u.rows) - 1)) ELSE 0
  IN [u EXCEPT !.idx = i, !.offset = IF i < @ THEN i ELSE @]

\* lines 1308-1314: the states _refresh_rows can leave
\* failed tells that the engine raised during the fetch, error is the exception
\* that _fetch_rows let out
_refresh_rows(u, reset_selection) ==
  UNION {{IF f.raised # ""
          THEN [u EXCEPT !.error = f.raised, !.failed = TRUE, !.fetches = @ + 1]
          ELSE _clamp([u EXCEPT !.rows = f.rows,
                                !.idx = IF reset_selection THEN 0 ELSE @,
                                !.offset = IF reset_selection THEN 0 ELSE @,
                                !.failed = @ \/ (fts.error /\ f.issued # <<>>),
                                !.fetches = @ + 1]) :
            f \in _fetch_rows(u.db, fts, FetchLimit, SearchTime, u.query, u.filter.repo,
                              u.filter.cwd, u.filter.tag, u.pinned_only, u.group_mode)} :
         fts \in BrowserEngine(u.query)}

\* lines 1316-1319; "" when there is no row
_selected_id(u) == IF u.rows = <<>> THEN "" ELSE u.rows[u.idx + 1].session_id

\* lines 1480-1484 and 1500-1504: the drawing keeps the selection in the window
\* and caches the detail of the selected session
Draw(u) ==
  LET o == IF u.idx < u.offset THEN u.idx ELSE u.offset
  IN [u EXCEPT !.offset = IF u.idx >= o + Visible THEN u.idx - Visible + 1 ELSE o,
               !.detail_cache = IF _selected_id(u) # "" THEN @ \cup {_selected_id(u)} ELSE @]

\* the outcomes of a key: the loop goes on, or _ui returns
Continue(U) == {[u |-> u, ret |-> Running] : u \in U}
Return(u, value) == {[u |-> u, ret |-> value]}


\* a focus key that only goes between the query and the list
TabFocus_Toggle(focus) == IF focus = "query" THEN "list" ELSE "query"

\* lines 1581-1587
TabFocus(focus) ==
  CASE focus = "query" -> "list"
    [] focus = "list" -> "preview"
    [] OTHER -> "query"

\* the keys of the preview pane, lines 1595-1648
PreviewKeys ==
  {"KEY_UP", "k", "16", "KEY_DOWN", "j", "14", "KEY_NPAGE", "KEY_PPAGE", "KEY_HOME", "KEY_END",
   "KEY_LEFT", "KEY_RIGHT", "w", "n", "N", "v"}

\* the keys that lines 1650-1688 handle
IsListNavigation(u, k) ==
  \/ k \in {"KEY_UP", "KEY_DOWN", "KEY_NPAGE", "KEY_PPAGE", "KEY_HOME"}
  \/ u.focus # "query" /\ k \in {"k", "16", "j", "14"}
  \/ k = "KEY_END" /\ u.rows # <<>>

\* lines 1650-1688
ListNavigation(u, k) ==
  LET To(i) == IF u.rows # <<>> THEN _clamp([u EXCEPT !.idx = i]) ELSE u
      last == Len(u.rows) - 1
  IN CASE k \in {"KEY_UP", "k", "16"} -> To(Max(0, u.idx - 1))
       [] k \in {"KEY_DOWN", "j", "14"} -> To(Min(last, u.idx + 1))
       [] k = "KEY_NPAGE" -> To(Min(last, u.idx + Visible))
       [] k = "KEY_PPAGE" -> To(Max(0, u.idx - Visible))
       [] k = "KEY_HOME" -> [u EXCEPT !.idx = 0, !.offset = 0]
       [] OTHER -> To(last)

\* lines 1697-1726: the states a key leaves when the focus is the query
QueryKey(u, k) ==
  CASE k = "KEY_LEFT" -> {[u EXCEPT !.cursor = Max(0, @ - 1)]}
    [] k = "KEY_RIGHT" -> {[u EXCEPT !.cursor = Min(Len(u.query), @ + 1)]}
    [] k \in BackspaceKeys ->
         IF u.cursor > 0
         THEN _refresh_rows([u EXCEPT !.query = DeleteAt(@, u.cursor - 1), !.cursor = @ - 1], TRUE)
         ELSE {u}
    [] k = "KEY_DC" ->
         IF u.cursor < Len(u.query)
         THEN _refresh_rows([u EXCEPT !.query = DeleteAt(@, u.cursor)], TRUE)
         ELSE {u}
    [] k = "21" -> _refresh_rows([u EXCEPT !.query = <<>>, !.cursor = 0], TRUE)
    [] k \in PrintableKeys ->
         _refresh_rows([u EXCEPT !.query = InsertAt(@, u.cursor, k), !.cursor = @ + 1], TRUE)
    [] OTHER -> {u}

\* lines 1256-1260, for the field pinned
SetPinned(db, sid, value) ==
  LET row == IF db.user_sessions[sid].present THEN db.user_sessions[sid]
             ELSE [present |-> TRUE, pinned |-> 0, tags |-> <<>>, note |-> <<>>]
  IN [db EXCEPT !.user_sessions[sid] = [row EXCEPT !.pinned = value]]

\* lines 1256-1260
SetUserField(db, sid, field, value) ==
  LET row == IF db.user_sessions[sid].present THEN db.user_sessions[sid]
             ELSE [present |-> TRUE, pinned |-> 0, tags |-> <<>>, note |-> <<>>]
  IN [db EXCEPT !.user_sessions[sid] = [row EXCEPT ![field] = value]]

\* what the user types at a prompt
PromptInputs == {<<>>, <<"a">>}

\* the None that _prompt returns
NoAnswer == <<NoneStr>>

\* lines 1157-1178: None when getstr fails, else the stripped input, or the
\* initial value when the input is empty
_prompt(initial) ==
  {NoAnswer} \cup {IF Strip(t) = <<>> /\ initial # <<>> THEN initial ELSE Strip(t) : t \in PromptInputs}

\* _prompt(...) or ""
OrEmpty(answer) == IF answer = NoAnswer THEN <<>> ELSE answer

\* lines 1760-1774: the tag edit (field tags) and the note edit (field note)
EditField(u, sid, field) ==
  LET current == IF field = "tags" THEN Tags(u.db, sid) ELSE Note(u.db, sid)
      Written(new) == [u EXCEPT !.db = SetUserField(@, sid, field, new),
                                !.detail_cache = @ \ {sid},
                                !.popped = @ \cup {sid},
                                !.answer = new]
  IN UNION {IF new = NoAnswer THEN {u}
            ELSE IF field = "tags" THEN _refresh_rows(Written(new), FALSE)
            ELSE {Written(new)} :
              new \in _prompt(current)}

\* lines 1776-1787: the filter prompts
EditFilter(u, field) ==
  UNION {_refresh_rows([u EXCEPT !.filter[field] = OrEmpty(new)], TRUE) :
           new \in _prompt(u.filter[field])}

\* lines 1797-1803: index_sessions completes, or raises as a run can
Reindex(u) ==
  Continue(_refresh_rows([u EXCEPT !.index_runs = @ + 1, !.detail_cache = {},
                                   !.popped = u.detail_cache], TRUE))
    \cup Return([u EXCEPT !.index_runs = @ + 1, !.error = "Exception"], "None")

\* lines 1728-1823: the outcomes of a key when the focus is the list or the preview
Hotkey(u, k) ==
  LET sid == _selected_id(u)
  IN CASE k = "o" /\ sid # "" -> Return(u, "__OPEN__ " \o u.rows[u.idx + 1].file_path)
       [] k = "t" /\ sid # "" -> Continue(EditField(u, sid, "tags"))
       [] k = "m" /\ sid # "" -> Continue(EditField(u, sid, "note"))
       [] k = "f" -> Continue(EditFilter(u, "repo"))
       [] k = "d" -> Continue(EditFilter(u, "cwd"))
       [] k = "F" -> Continue(EditFilter(u, "tag"))
       [] k = "R" -> Reindex(u)
       [] k = "K" /\ sid # "" -> Return(u, "__FORK__ " \o sid)
       [] k = "S" /\ sid # "" -> Return(u, "__SHARE__ " \o sid)
       [] k = "x" /\ sid # "" ->
            LET new_val == IF u.rows[u.idx + 1].pinned # 0 THEN 0 ELSE 1
            IN Continue(_refresh_rows([u EXCEPT !.db = SetPinned(@, sid, new_val),
                                                !.detail_cache = @ \ {sid},
                                                !.popped = @ \cup (u.detail_cache \cap {sid})],
                                      FALSE))
       [] k = "P" -> Continue(_refresh_rows([u EXCEPT !.pinned_only = ~@], TRUE))
       [] k = "g" -> Continue(_refresh_rows([u EXCEPT !.group_mode = ~@], TRUE))
       [] OTHER -> Continue({u})

\* a loop that tries the hotkeys before the editor of the query
Handle_HotkeysFirst(u, k) ==
  IF k = "q" THEN Return(u, "None")
  ELSE IF k = "27" THEN Continue(_refresh_rows([u EXCEPT !.query = <<>>, !.cursor = 0], TRUE))
  ELSE IF k = "9" THEN Continue({[u EXCEPT !.focus = TabFocus(@)]})
  ELSE IF k = "/" THEN Continue({[u EXCEPT !.focus = "query"]})
  ELSE IF u.focus = "preview" /\ u.rows # <<>> /\ k \in PreviewKeys THEN Continue({u})
  ELSE IF u.focus # "preview" /\ IsListNavigation(u, k) THEN Continue({ListNavigation(u, k)})
  ELSE IF k \in EnterKeys
       THEN IF _selected_id(u) # "" THEN Return(u, "__RESUME__ " \o _selected_id(u))
            ELSE Continue({u})
  ELSE IF k \in {"x", "t", "m", "f", "d", "F", "P", "g", "R", "o", "K", "S"} THEN Hotkey(u, k)
  ELSE IF u.focus = "query" THEN Continue(QueryKey(u, k))
  ELSE Hotkey(u, k)

\* lines 1571-1823: the outcomes of the key k
Handle(u, k) ==
  IF k = "q" THEN Return(u, "None")
  ELSE IF k = "27" THEN Continue(_refresh_rows([u EXCEPT !.query = <<>>, !.cursor = 0], TRUE))
  ELSE IF k = "9" THEN Continue({[u EXCEPT !.focus = TabFocus(@)]})
  ELSE IF k = "/" THEN Continue({[u EXCEPT !.focus = "query"]})
  ELSE IF u.focus = "preview" /\ u.rows # <<>> /\ k \in PreviewKeys THEN Continue({u})
  ELSE IF u.focus # "preview" /\ IsListNavigation(u, k) THEN Continue({ListNavigation(u, k)})
  ELSE IF k \in EnterKeys
       THEN IF _selected_id(u) # "" THEN Return(u, "__RESUME__ " \o _selected_id(u))
            ELSE Continue({u})
  ELSE IF u.focus = "query" THEN Continue(QueryKey(u, k))
  ELSE Hotkey(u, k)

\* k = stdscr.getch() and what follows, up to the next getch or the return
Key ==
  /\ bret = Running
  /\ nkeys < MaxKeys
  /\ \E k \in BrowserKeys :
       \E r \in Handle([ui EXCEPT !.key = k, !.fetches = 0, !.popped = {}, !.failed = FALSE,
                                  !.index_runs = 0, !.answer = NoAnswer], k) :
         /\ ui' = IF r.u.error # "" THEN r.u ELSE Draw(r.u)
         /\ bret' = IF r.u.error # "" THEN "raise " \o r.u.error ELSE r.ret
  /\ nkeys' = nkeys + 1
  /\ UNCHANGED NotBrowser

NextBrowser == Key

\* lines 1267-1280 and the first drawing; key is the last key read and fetches
\* the number of calls of _fetch_rows made while handling it
InitBrowser ==
  /\ \E db \in BrowserStores, initial_query \in {<<>>, <<"a">>} :
       \E u \in _refresh_rows([db |-> db, query |-> initial_query, cursor |-> Len(initial_query),
                               focus |-> "query", filter |-> NoFilter, pinned_only |-> FALSE,
                               group_mode |-> FALSE, rows |-> <<>>, idx |-> 0, offset |-> 0,
                               detail_cache |-> {}, key |-> "", fetches |-> 0, popped |-> {},
                               failed |-> FALSE, error |-> "", index_runs |-> 0,
                               answer |-> NoAnswer], TRUE) :
         ui = Draw(u)
  /\ bret = Running
  /\ nkeys = 0
  /\ ParseIdle /\ IndexIdle /\ QueryIdle /\ CallIdle /\ DebounceIdle

SpecBrowser == InitBrowser /\ [][NextBrowser]_vars



\* the browser with the keys of the list and its hotkeys: the prompts, the
\* reindex and the exit actions among them
MaxHotkeys == 3

HotkeyKeys ==
  {"a", "q", "x", "t", "m", "f", "F", "P", "g", "R", "o", "K", "S",
   "9", "27", "10", "KEY_UP", "KEY_DOWN", "KEY_NPAGE", "KEY_HOME", "KEY_END"}

HotkeysKey ==
  /\ bret = Running
  /\ nkeys < MaxHotkeys
  /\ \E k \in HotkeyKeys :
       \E r \in Handle([ui EXCEPT !.key = k, !.fetches = 0, !.popped = {}, !.failed = FALSE,
                                  !.index_runs = 0, !.answer = NoAnswer], k) :
         /\ ui' = IF r.u.error # "" THEN r.u ELSE Draw(r.u)
         /\ bret' = IF r.u.error # "" THEN "raise " \o r.u.error ELSE r.ret
  /\ nkeys' = nkeys + 1
  /\ UNCHANGED NotBrowser

NextHotkeys == HotkeysKey

SpecHotkeys == InitBrowser /\ [][NextHotkeys]_vars


\* C24: after any sequence of keys the selected index is between 0 and
\* len(rows) - 1 when there are rows and 0 when there are none, also after the
\* list has shrunk through a requery, a filter, pinned-only, grouping, a pin
\* toggle or a reindex.
C24_IndexInRange ==
  IF ui.rows # <<>> THEN 0 <= ui.idx /\ ui.idx <= Len(ui.rows) - 1 ELSE ui.idx = 0

\* the second of two rows was selected and pinned, and the requery that follows
\* the pin toggle came back empty
C24_Witness ==
  /\ bret = Running /\ ui.key = "x" /\ ui.failed
  /\ Pinned(ui.db, "s1") = 1 /\ Pinned(ui.db, "s2") = 1
  /\ ui.rows = <<>> /\ ui.idx = 0


\* C29: when a query against the full-text index raises an engine error, the
\* browser takes it as no results: the rows become empty, the selected index 0,
\* the loop keeps running and no error leaves the browser.
C29_EngineErrorIsNoResults ==
  ui.failed => ui.rows = <<>> /\ ui.idx = 0 /\ ui.error = "" /\ bret = Running

\* a character typed into the empty query of a browser that shows rows, and the
\* engine fails on the query built from it
C29_Witness ==
  /\ ui.failed /\ ui.key = "a" /\ ui.query = <<"a">> /\ ui.fetches = 1
  /\ ui.detail_cache # {} /\ ui.rows = <<>> /\ bret = Running


\* the key read last was handled as an edit of the row that was selected
IsPinToggle(u, v) == v.key = "x" /\ u.focus # "query" /\ _selected_id(u) # ""
IsFieldEdit(u, v, k) ==
  v.key = k /\ u.focus # "query" /\ _selected_id(u) # "" /\ v.answer # NoAnswer

\* C27: a pin toggle, a tag edit or a note edit on the selected row writes the
\* new value to the store before the next key is read and removes the cached
\* detail of the row; the pin toggle alone recomputes the rows, a tag edit and
\* a note edit issue no query and leave the rows as they were.
C27_EditsWriteThrough ==
  [][LET sid == _selected_id(ui)
     IN /\ IsPinToggle(ui, ui') =>
             /\ Pinned(ui'.db, sid) = 1 - Pinned(ui.db, sid)
             /\ sid \in ui'.popped
             /\ ui'.fetches = 1
        /\ IsFieldEdit(ui, ui', "t") =>
             /\ Tags(ui'.db, sid) = ui'.answer
             /\ sid \in ui'.popped
             /\ ui'.fetches = 0 /\ ui'.rows = ui.rows
        /\ IsFieldEdit(ui, ui', "m") =>
             /\ Note(ui'.db, sid) = ui'.answer
             /\ sid \in ui'.popped
             /\ ui'.fetches = 0 /\ ui'.rows = ui.rows]_vars

\* the same with the tag edit recomputing the rows as the pin toggle does
C27_TagEditRequeries ==
  [][LET sid == _selected_id(ui)
     IN /\ IsPinToggle(ui, ui') \/ IsFieldEdit(ui, ui', "t") => ui'.fetches = 1
        /\ IsFieldEdit(ui, ui', "t") => Tags(ui'.db, sid) = ui'.answer /\ sid \in ui'.popped
        /\ IsFieldEdit(ui, ui', "m") =>
             /\ Note(ui'.db, sid) = ui'.answer
             /\ sid \in ui'.popped
             /\ ui'.fetches = 0 /\ ui'.rows = ui.rows]_vars

\* the value an exit key returns for the selected row, "" when it is no exit key
ClaimedExit(u, k) ==
  LET sid == _selected_id(u)
  IN CASE k \in EnterKeys /\ sid # "" -> "__RESUME__ " \o sid
       [] k = "o" /\ u.focus # "query" /\ sid # "" -> "__OPEN__ " \o u.rows[u.idx + 1].file_path
       [] k = "K" /\ u.focus # "query" /\ sid # "" -> "__FORK__ " \o sid
       [] k = "S" /\ u.focus # "query" /\ sid # "" -> "__SHARE__ " \o sid
       [] OTHER -> ""

\* C28: resume, open, fork, share and force reindex each end the loop by
\* returning a value that names the action and its argument; the browser runs
\* none of them: it starts no indexing run.
C28_ExitActionsReturned ==
  [][/\ ClaimedExit(ui, ui'.key) # "" => bret' = ClaimedExit(ui, ui'.key)
     /\ ui'.key = "R" /\ ui.focus # "query" =>
          bret' \notin {Running, "None"} /\ ui'.error = ""
     /\ ui'.index_runs = 0]_vars

\* the four exit actions that name a session or a file
C28_SessionActionsReturned ==
  [][ClaimedExit(ui, ui'.key) # "" =>
       bret' = ClaimedExit(ui, ui'.key) /\ ui'.index_runs = 0]_vars

\* the focus after the focus-cycle command, as the claim gives it
ClaimedCycle(focus) ==
  IF focus = "query" THEN "list" ELSE IF focus = "list" THEN "preview" ELSE "query"

\* C16: the focus is always query, list or preview; Tab takes it from query to
\* list, from list to preview and from preview to query, "/" takes it to
\* query, and every other key leaves it as it was.
C16_FocusOnlyByCommand ==
  [][/\ ui'.focus \in {"query", "list", "preview"}
     /\ ui'.key = "9" => ui'.focus = ClaimedCycle(ui.focus)
     /\ ui'.key = "/" => ui'.focus = "query"
     /\ ui'.key \notin {"9", "/"} => ui'.focus = ui.focus]_vars

\* C16, its case: with the focus on the list an arrow key has moved the
\* selection and the focus is still the list
C16_Witness ==
  /\ bret = Running /\ ui.key = "KEY_DOWN"
  /\ ui.focus = "list" /\ ui.idx = 1

\* C17: while the focus is the query, a printable key is inserted at the
\* cursor and the cursor moves on by one; backspace removes the character
\* before the cursor, delete the character at it, and clear empties the query
\* and puts the cursor at 0.
C17_QueryEditing ==
  [][ui.focus = "query" =>
       /\ ui'.key \in PrintableKeys =>
            /\ ui'.query = InsertAt(ui.query, ui.cursor, ui'.key)
            /\ ui'.cursor = ui.cursor + 1
       /\ (ui'.key \in BackspaceKeys /\ ui.cursor > 0) =>
            /\ ui'.query = DeleteAt(ui.query, ui.cursor - 1)
            /\ ui'.cursor = ui.cursor - 1
       /\ (ui'.key = "KEY_DC" /\ ui.cursor < Len(ui.query)) =>
            /\ ui'.query = DeleteAt(ui.query, ui.cursor)
            /\ ui'.cursor = ui.cursor
       /\ ui'.key = "21" => ui'.query = <<>> /\ ui'.cursor = 0]_vars

\* C15: an edit of the query does not fetch the rows while it is handled.
C15_EditDoesNotQuery ==
  [][ui'.query # ui.query => ui'.fetches = 0]_vars


---------------------------------------------------------------------------
(* _preview_find_matches(lines, terms).  The terms are those _query_terms   *)
(* can give: no two of them equal when lower-cased.                         *)

MaxMatchLines == 3

MatchLineTexts == {<<>>, <<"a">>, <<"b">>, <<"a", "b">>, <<"b", "a">>, <<"A">>, <<"b", "A">>}
MatchTerms == {<<"a">>, <<"b">>, <<"a", "b">>, <<"A">>, <<"b", "a">>}
MatchTermLists ==
  {ts \in SeqsUpTo(MatchTerms, 2) :
     \A i, j \in 1..Len(ts) : i # j => LowerStr(ts[i]) # LowerStr(ts[j])}

\* s.find(t): the least position of t in s, from 0, or -1
Find(s, t) ==
  LET at == {i \in 0..(Len(s) - Len(t)) : SubSeq(s, i + 1, i + Len(t)) = t}
  IN IF at = {} THEN -1 ELSE CHOOSE i \in at : \A j \in at : i <= j

\* the loop over the terms, lines 866-872: the hits and the first column
RECURSIVE CountHits(_, _, _)
CountHits(s, ts, acc) ==
  IF ts = <<>> THEN acc
  ELSE LET found == Find(s, Head(ts))
       IN IF found = -1 THEN CountHits(s, Tail(ts), acc)
          ELSE CountHits(s, Tail(ts),
                         [hits |-> acc.hits + 1,
                          first_col |-> IF acc.first_col = None \/ found < acc.first_col
                                        THEN found ELSE acc.first_col])

\* the loop over the lines, lines 862-874: (i, first_col, hits) of each line hit
RECURSIVE LineHits(_, _, _)
LineHits(ls, ts, i) ==
  IF i >= Len(ls) THEN <<>>
  ELSE LET h == CountHits(LowerStr(ls[i + 1]), ts, [hits |-> 0, first_col |-> None])
       IN (IF h.hits # 0 THEN <<[i |-> i, col |-> h.first_col, hits |-> h.hits]>> ELSE <<>>)
          \o LineHits(ls, ts, i + 1)

\* a sort key without the number of hits
MatchKeyLess_NoHits(a, b) == a.i < b.i \/ (a.i = b.i /\ a.col < b.col)

\* the sort key of line 876: (-hits, i, col)
MatchKeyLess(a, b) ==
  \/ a.hits > b.hits
  \/ a.hits = b.hits /\ a.i < b.i
  \/ a.hits = b.hits /\ a.i = b.i /\ a.col < b.col

\* out.sort(key=...) of line 876: stable, least key first
RECURSIVE SortMatches(_)
SortMatches(hs) ==
  IF hs = <<>> THEN <<>>
  ELSE LET sorted == SortMatches(SubSeq(hs, 1, Len(hs) - 1))
           h == hs[Len(hs)]
           notAfter == {i \in 1..Len(sorted) : ~MatchKeyLess(h, sorted[i])}
           k == IF notAfter = {} THEN 0 ELSE CHOOSE i \in notAfter : \A j \in notAfter : j <= i
       IN SubSeq(sorted, 1, k) \o <<h>> \o SubSeq(sorted, k + 1, Len(sorted))

\* lines 851-878
_preview_find_matches(ls, terms) ==
  LET ts == [k \in 1..Len(SelectSeq(terms, LAMBDA t : Strip(t) # <<>>)) |->
               LowerStr(SelectSeq(terms, LAMBDA t : Strip(t) # <<>>)[k])]
      sorted == SortMatches(LineHits(ls, ts, 0))
  IN IF ts = <<>> THEN <<>>
     ELSE [k \in 1..Len(sorted) |-> <<sorted[k].i, sorted[k].col>>]

PreviewFindMatches ==
  /\ cpc = "call"
  /\ ret' = _preview_find_matches(cargs.lines, cargs.terms)
  /\ cpc' = "return"
  /\ UNCHANGED cargs
  /\ UNCHANGED NotCall

NextMatches == PreviewFindMatches

InitMatches ==
  /\ \E ls \in SeqsUpTo(MatchLineTexts, MaxMatchLines), terms \in MatchTermLists :
       cargs = [lines |-> ls, terms |-> terms]
  /\ cpc = "call"
  /\ ret = <<>>
  /\ ParseIdle /\ IndexIdle /\ QueryIdle /\ DebounceIdle /\ BrowserIdle

SpecMatches == InitMatches /\ [][NextMatches]_vars


\* the terms found in a line, case apart, and the least position of one
ClaimedTermsIn(line, terms) ==
  {LowerStr(terms[k]) : k \in {x \in 1..Len(terms) : Contains(LowerStr(line), LowerStr(terms[x]))}}
ClaimedColumn(line, terms) ==
  CHOOSE c \in 0..Len(line) :
    /\ \E t \in ClaimedTermsIn(line, terms) : SubSeq(LowerStr(line), c + 1, c + Len(t)) = t
    /\ \A d \in 0..(c - 1) :
         \A t \in ClaimedTermsIn(line, terms) : SubSeq(LowerStr(line), d + 1, d + Len(t)) # t

\* C21: _preview_find_matches returns one (line, column) hit for each line
\* that contains a term, case apart, and none for the others; the column is
\* the least position of a term in the line; the hits are ordered by the
\* number of terms in the line descending, then line ascending, then column.
C21_MatchesRanked ==
  cpc = "return" =>
    LET ls == cargs.lines
        terms == cargs.terms
        n(k) == Cardinality(ClaimedTermsIn(ls[ret[k][1] + 1], terms))
    IN /\ \A i \in 0..(Len(ls) - 1) :
            Cardinality({k \in 1..Len(ret) : ret[k][1] = i})
              = IF ClaimedTermsIn(ls[i + 1], terms) # {} THEN 1 ELSE 0
       /\ \A k \in 1..Len(ret) :
            /\ ret[k][1] \in 0..(Len(ls) - 1)
            /\ ret[k][2] = ClaimedColumn(ls[ret[k][1] + 1], terms)
       /\ \A k, m \in 1..Len(ret) :
            k < m => \/ n(k) > n(m)
                     \/ n(k) = n(m) /\ ret[k][1] < ret[m][1]

\* C21, its case: a line with both terms comes before an earlier line with one
C21_Witness ==
  /\ cpc = "return" /\ Len(cargs.terms) = 2 /\ Len(ret) = 2
  /\ ret[1][1] = 1 /\ ret[2][1] = 0
  /\ ret[2][2] = 1


---------------------------------------------------------------------------
(* _group_rows(rows) on its own.  No title is the text of a session id.    *)

MaxGroupRows == 3

GroupTitles ==
  {<<>>, <<" ">>, <<"F">>, <<" ", "f">>, <<"f", " ", "g">>, <<"F", " ", " ", "g">>}

\* the lists of rows of different sessions
GroupInputs ==
  {rows \in SeqsUpTo([session_id : SearchSids, title : GroupTitles,
                      updated_at : UpdatedAts, pinned : {0, 1}], MaxGroupRows) :
     \A i, j \in 1..Len(rows) : i # j => rows[i].session_id # rows[j].session_id}

GroupRows ==
  /\ cpc = "call"
  /\ ret' = _group_rows(cargs.rows)
  /\ cpc' = "return"
  /\ UNCHANGED cargs
  /\ UNCHANGED NotCall

NextGroup == GroupRows

InitGroup ==
  /\ \E rows \in GroupInputs : cargs = [rows |-> rows]
  /\ cpc = "call"
  /\ ret = <<>>
  /\ ParseIdle /\ IndexIdle /\ QueryIdle /\ DebounceIdle /\ BrowserIdle

SpecGroup == InitGroup /\ [][NextGroup]_vars

\* the title trimmed, with whitespace and case folded
ClaimedNormalized(title) == CollapseSpaces(LowerStr(Strip(title)))

\* the input row a displayed row stands for
ClaimedSource(d) == CHOOSE r \in {cargs.rows[i] : i \in 1..Len(cargs.rows)} : r.session_id = d.session_id

\* rows of one class: the same normalized title, an empty one counting or not
ClaimedSame(a, b, emptyToo) ==
  \/ a.session_id = b.session_id
  \/ /\ emptyToo \/ ClaimedNormalized(a.title) # <<>>
     /\ ClaimedNormalized(a.title) = ClaimedNormalized(b.title)

\* what is displayed: one row for each class, the most recent of its class,
\* with the number of the others
ClaimedGrouping(emptyToo) ==
  LET Same(a, b) == ClaimedSame(a, b, emptyToo)
      input == {cargs.rows[i] : i \in 1..Len(cargs.rows)}
      shown == {ret[k] : k \in 1..Len(ret)}
  IN /\ Cardinality(shown) = Len(ret)
     /\ \A d \in shown : \E r \in input : r.session_id = d.session_id
     /\ \A r \in input :
          Cardinality({d \in shown : Same(ClaimedSource(d), r)}) = 1
     /\ \A d \in shown :
          LET class == {r \in input : Same(r, ClaimedSource(d))}
              hidden == Cardinality(class) - 1
          IN /\ \A r \in class : ClaimedSource(d).updated_at >= r.updated_at
             /\ d.updated_at = ClaimedSource(d).updated_at
             /\ d.pinned = ClaimedSource(d).pinned
             /\ d.title = IF hidden = 0 THEN ClaimedSource(d).title
                          ELSE ClaimedSource(d).title \o <<" ", "(", "+", Digit(hidden), ")">>

ClaimedKept(sid) ==
  LET st == cargs.store
      f == cargs.filter
  IN /\ cargs.pinned_only => Pinned(st, sid) # 0
     /\ f.repo # <<>> => Contains(LowerStr(st.sessions[sid].repo_name), LowerStr(f.repo))
     /\ f.cwd # <<>> => Contains(LowerStr(st.sessions[sid].cwd), LowerStr(f.cwd))
     /\ f.tag # <<>> => Contains(LowerStr(Tags(st, sid)), LowerStr(f.tag))
     /\ ~ClaimedBrowse(cargs.q) => cargs.fts.hit[sid].match

\* C26: every row the browser's fetch gives satisfies the pinned-only, the
\* repository, the directory and the tag filter together and matches the
\* query; a row stands for itself and for hidden rows of its title that all
\* satisfy them too, and without group mode for itself only.
C26_FiltersBeforeGrouping ==
  (cpc = "return" /\ cargs.fn = "_fetch_rows") =>
    \A k \in 1..Len(ret.rows) :
      LET d == ret.rows[k]
          title == cargs.store.sessions[d.session_id].title
          class == {sid \in SearchSids :
                      /\ ClaimedKept(sid)
                      /\ \/ sid = d.session_id
                         \/ /\ ClaimedNormalized(title) # <<>>
                            /\ ClaimedNormalized(cargs.store.sessions[sid].title)
                                 = ClaimedNormalized(title)}
      IN /\ ClaimedKept(d.session_id)
         /\ \E hidden \in 0..(Cardinality(class) - 1) :
              /\ hidden > 0 => cargs.group_mode
              /\ d.title = IF hidden = 0 THEN title
                           ELSE title \o <<" ", "(", "+", Digit(hidden), ")">>

\* C26, its case: group mode with a directory filter that one of two rows of
\* the same title fails: the other is shown, with nothing hidden
C26_Witness ==
  /\ cpc = "return" /\ cargs.fn = "_fetch_rows" /\ cargs.group_mode
  /\ cargs.filter.cwd = <<"A">> /\ cargs.q = <<"a">>
  /\ cargs.fts.hit["s2"].match
  /\ \E k \in 1..Len(ret.rows) : ret.rows[k].session_id = "s1" /\ ret.rows[k].title = <<"F">>


---------------------------------------------------------------------------
(* The preview pane of the live browser: the preview_* locals of _ui,      *)
(* _preview_ensure and the keys that act on them.  One step is one key     *)
(* read by getch, its handling, and the frame drawn after it.  Of the list *)
(* and the query only the selected session and the terms of the query are  *)
(* kept: a key that changes them may leave any selection, or none.         *)

MaxX == 1
MaxPaneKeys == 4

\* the indexed text of the sessions, as content.splitlines() gives it
PaneContent(sid) ==
  IF sid = "s1"
  THEN << <<"c">>, <<"c">>, <<"c", "c", "c">>, <<"a", "b">>, <<"b">>, <<"a", "b", "a">> >>
  ELSE << <<"a", "b">> >>

PaneSids == {"s1", "s2"}

\* detail["content"] of a session once the store has been indexed again
\* edition times since the browser started: the log may have grown by a line
StoredContent(sid, edition) ==
  IF edition = 0 THEN PaneContent(sid) ELSE Append(PaneContent(sid), <<"b">>)
PaneTerms == {<<>>, << <<"a", "b">> >>, << <<"b", "a">> >>}
PaneWidths == {2, 3}
PaneHeights == {1, 2}

\* lines 1349-1360: no session is selected
PreviewReset(p) ==
  [p EXCEPT !.cached_sid = "", !.cached_terms = <<>>, !.raw_lines = <<>>,
            !.render_lines = <<>>, !.raw_to_render = <<>>, !.matches_render = <<>>,
            !.match_idx = 0, !.y = 0]

\* an ensure that leaves the offset where the keys have put it
ClampY_None(y, max_y) == y

\* line 1408
ClampY(y, max_y) == Max(0, Min(y, max_y))

\* lines 1336-1416, for the selected session sid with the terms of the query
_preview_ensure(p, sid, preview_w, preview_h) ==
  IF sid = "" THEN PreviewReset(p)
  ELSE
    LET terms == p.terms
        sid_changed == sid # p.cached_sid
        terms_changed == terms # p.cached_terms
        raw_lines == IF sid_changed \/ p.raw_lines = <<>> THEN StoredContent(sid, p.edition)
                   ELSE p.raw_lines
        need_render_rebuild ==
          \/ sid_changed
          \/ p.render_lines = <<>>
          \/ preview_w # p.cached_width
          \/ p.wrap # p.cached_wrap
          \/ p.x # p.cached_x
        rebuilt == _preview_build_render_lines(raw_lines, Max(1, preview_w), p.wrap, p.x)
        render_lines == IF need_render_rebuild THEN rebuilt.rendered ELSE p.render_lines
        raw_to_render == IF need_render_rebuild THEN rebuilt.raw_to_render ELSE p.raw_to_render
        matches_raw == _preview_find_matches(raw_lines, terms)
        kept == SelectSeq(matches_raw, LAMBDA m : 0 <= m[1] /\ m[1] < Len(raw_to_render))
        matches_render ==
          IF sid_changed \/ terms_changed \/ need_render_rebuild
          THEN [k \in 1..Len(kept) |-> raw_to_render[kept[k][1] + 1]]
          ELSE p.matches_render
        jump == sid_changed \/ terms_changed
        y1 == IF ~jump THEN p.y
              ELSE IF terms # <<>> /\ matches_render # <<>> THEN Max(0, matches_render[1] - 2)
              ELSE IF p.tail THEN Max(0, Len(render_lines) - Max(1, preview_h))
              ELSE 0
        max_y == Max(0, Len(render_lines) - Max(1, preview_h))
        idx1 == IF jump THEN 0 ELSE p.match_idx
    IN [p EXCEPT !.raw_lines = raw_lines,
                 !.render_lines = render_lines,
                 !.raw_to_render = raw_to_render,
                 !.cached_width = IF need_render_rebuild THEN preview_w ELSE @,
                 !.cached_wrap = IF need_render_rebuild THEN p.wrap ELSE @,
                 !.cached_x = IF need_render_rebuild THEN p.x ELSE @,
                 !.matches_render = matches_render,
                 !.y = ClampY(y1, max_y),
                 !.match_idx = IF matches_render # <<>>
                               THEN Max(0, Min(idx1, Len(matches_render) - 1)) ELSE 0,
                 !.cached_sid = sid,
                 !.cached_terms = terms]


\* the handler's call at lines 1600, 1604, 1618, 1623, 1629, 1636, 1642:
\* the session and the sizes are those of the frame on screen
Ensure(p) == _preview_ensure(p, p.sid, p.w, p.h)

\* a wrap toggle that keeps the horizontal offset
ToggleWrap_KeepX(p) == Ensure([p EXCEPT !.wrap = ~p.wrap])

\* lines 1625-1630
ToggleWrap(p) ==
  LET wrapped == ~p.wrap
  IN Ensure([p EXCEPT !.wrap = wrapped, !.x = IF wrapped THEN 0 ELSE @])

\* lines 1631-1642 and 1810-1821: step is 1 for n, -1 for N
NextHit(p, step) ==
  IF p.matches_render = <<>> THEN p
  ELSE LET n == Len(p.matches_render)
           i == (p.match_idx + step + n) % n
       IN Ensure([p EXCEPT !.match_idx = i, !.y = Max(0, p.matches_render[i + 1] - 2)])

\* lines 1643-1647 and 1804-1808
ToggleTail(p) ==
  LET tail == ~p.tail
  IN [p EXCEPT !.tail = tail,
               !.y = IF tail /\ p.sid # "" /\ p.cached_terms = <<>>
                     THEN Max(0, Len(p.render_lines) - p.h) ELSE @]

PanePreviewKeys ==
  {"KEY_UP", "k", "16", "KEY_DOWN", "j", "14", "KEY_NPAGE", "KEY_PPAGE", "KEY_HOME",
   "KEY_END", "KEY_LEFT", "KEY_RIGHT", "w", "n", "N", "v"}

\* lines 1594-1647: the keys of the focused preview
PreviewNavigation(p, k) ==
  CASE k \in {"KEY_UP", "k", "16"} -> [p EXCEPT !.y = Max(0, p.y - 1)]
    [] k \in {"KEY_DOWN", "j", "14"} -> Ensure([p EXCEPT !.y = p.y + 1])
    [] k = "KEY_NPAGE" -> Ensure([p EXCEPT !.y = p.y + p.h])
    [] k = "KEY_PPAGE" -> [p EXCEPT !.y = Max(0, p.y - p.h)]
    [] k = "KEY_HOME" -> [p EXCEPT !.y = 0]
    [] k = "KEY_END" -> [p EXCEPT !.y = Max(0, Len(p.render_lines) - p.h)]
    [] k = "KEY_LEFT" -> IF ~p.wrap /\ p.x > 0 THEN Ensure([p EXCEPT !.x = Max(0, p.x - 1)]) ELSE p
    [] k = "KEY_RIGHT" -> IF ~p.wrap THEN Ensure([p EXCEPT !.x = p.x + 1]) ELSE p
    [] k = "w" -> ToggleWrap(p)
    [] k = "n" -> NextHit(p, 1)
    [] k = "N" -> NextHit(p, -1)
    [] k = "v" -> ToggleTail(p)

\* the keys whose handling recomputes the rows or moves the selection: what they
\* leave selected depends on the store, so any session or none may follow
PaneListKeys == {"KEY_UP", "KEY_DOWN"}
PaneVimKeys == {"k", "16", "j", "14"}
PaneTyped == {"a", "P", "k", "j", "w", "n", "N", "v"}
PaneRowKeys == {"P", "27"}
PaneKeys == PanePreviewKeys \cup PaneRowKeys \cup {"9", "/", "a", "KEY_RESIZE"}

\* lines 1571-1823 as far as the preview state goes: the states after key k, where
\* sid and terms are what the list and the query hold once the key is handled
HandlePaneKey(p, k, sid, terms) ==
  IF k = "27" THEN [p EXCEPT !.terms = <<>>, !.sid = sid]
  ELSE IF k = "9" THEN [p EXCEPT !.focus = TabFocus(p.focus)]
  ELSE IF k = "/" THEN [p EXCEPT !.focus = "query"]
  ELSE IF p.focus = "preview" /\ p.sid # "" /\ k \in PanePreviewKeys THEN PreviewNavigation(p, k)
  ELSE IF p.focus # "preview" /\ (k \in PaneListKeys \/ (p.focus = "list" /\ k \in PaneVimKeys))
       THEN [p EXCEPT !.sid = IF p.sid = "" THEN "" ELSE sid]
  ELSE IF p.focus = "query"
       THEN IF k \in PaneTyped THEN [p EXCEPT !.terms = terms, !.sid = sid] ELSE p
  ELSE IF k = "P" THEN [p EXCEPT !.sid = sid]
  ELSE IF k = "R" THEN [p EXCEPT !.sid = sid]
  ELSE IF k = "v" THEN ToggleTail(p)
  ELSE IF k = "n" /\ p.sid # "" THEN NextHit(p, 1)
  ELSE IF k = "N" /\ p.sid # "" THEN NextHit(p, -1)
  ELSE p

\* lines 1420-1567: the frame drawn before the next key is read, in a terminal
\* whose preview is preview_w columns by preview_h rows
DrawPane(p, preview_w, preview_h) ==
  IF p.sid = "" THEN [p EXCEPT !.w = preview_w]
  ELSE _preview_ensure([p EXCEPT !.w = preview_w, !.h = preview_h], p.sid, preview_w, preview_h)


\* the keys that change the query, and those that only change the rows or the selection
Requeries(p, k) == p.focus = "query" /\ k \in PaneTyped

Reselects(p, k) ==
  \/ k = "27"
  \/ p.focus # "query" /\ k \in {"P", "R"}
  \/ p.focus # "preview" /\ p.sid # "" /\ k \in PaneListKeys
  \/ p.focus = "list" /\ p.sid # "" /\ k \in PaneVimKeys

\* the key read by getch at line 1569, its handling, and the next frame
PaneKey ==
  /\ bret = Running
  /\ nkeys < MaxPaneKeys
  /\ \E k \in PaneKeys, sid \in PaneSids \cup {""}, terms \in PaneTerms,
        preview_w \in PaneWidths, preview_h \in PaneHeights :
       /\ k # "KEY_RESIZE" => preview_w = ui.w /\ (ui.h \in PaneHeights => preview_h = ui.h)
       /\ ~Requeries(ui, k) => terms = ui.terms
       /\ ~(Requeries(ui, k) \/ Reselects(ui, k)) => sid = ui.sid
       /\ ~(k = "KEY_RIGHT" /\ ui.x >= MaxX)
       /\ ui' = DrawPane([HandlePaneKey(ui, k, sid, terms) EXCEPT !.key = k], preview_w, preview_h)
  /\ nkeys' = nkeys + 1
  /\ UNCHANGED bret
  /\ UNCHANGED NotBrowser

NextPane == PaneKey

\* lines 1262-1297 and the first frame
InitPane ==
  /\ \E sid \in PaneSids \cup {""}, terms \in PaneTerms,
        preview_w \in PaneWidths, preview_h \in PaneHeights :
       ui = DrawPane([sid |-> sid, terms |-> terms, focus |-> "query", w |-> 0, h |-> 0,
                      tail |-> TRUE, wrap |-> FALSE, x |-> 0, y |-> 0, match_idx |-> 0,
                      cached_sid |-> "", cached_terms |-> <<>>, cached_width |-> 0,
                      cached_wrap |-> FALSE, cached_x |-> 0, raw_lines |-> <<>>,
                      render_lines |-> <<>>, raw_to_render |-> <<>>, matches_render |-> <<>>,
                      key |-> "", edition |-> 0], preview_w, preview_h)
  /\ bret = Running
  /\ nkeys = 0
  /\ ParseIdle /\ IndexIdle /\ QueryIdle /\ CallIdle /\ DebounceIdle

SpecPane == InitPane /\ [][NextPane]_vars


\* the browser with the forced reindex among its keys: key R, lines 1797-1803,
\* runs index_sessions, which may find the log of a session grown, empties
\* detail_cache and recomputes the rows
MaxReindexKeys == 3
MaxEdition == 1

ReindexKeys == {"R", "9", "w", "KEY_RIGHT", "KEY_DOWN", "KEY_RESIZE"}

Reindexes(p, k) == p.focus # "query" /\ k = "R"

PaneReindexKey ==
  /\ bret = Running
  /\ nkeys < MaxReindexKeys
  /\ \E k \in ReindexKeys, sid \in PaneSids \cup {""}, edition \in 0..MaxEdition,
        preview_w \in PaneWidths, preview_h \in PaneHeights :
       /\ k # "KEY_RESIZE" => preview_w = ui.w /\ (ui.h \in PaneHeights => preview_h = ui.h)
       /\ ~Reselects(ui, k) => sid = ui.sid
       /\ IF Reindexes(ui, k) THEN edition \in {ui.edition, ui.edition + 1}
          ELSE edition = ui.edition
       /\ ~(k = "KEY_RIGHT" /\ ui.x >= MaxX)
       /\ ui' = DrawPane([HandlePaneKey([ui EXCEPT !.edition = edition], k, sid, ui.terms)
                            EXCEPT !.key = k], preview_w, preview_h)
  /\ nkeys' = nkeys + 1
  /\ UNCHANGED bret
  /\ UNCHANGED NotBrowser

NextPaneReindex == PaneReindexKey

SpecPaneReindex == InitPane /\ [][NextPaneReindex]_vars

\* the legal scroll range of the preview on screen
MaxScroll(p) == Max(0, Len(p.render_lines) - p.h)

\* C22: at every frame that shows a selected document the vertical offset of the
\* preview lies between 0 and max(0, render lines - viewport height), whatever
\* scroll, page, Home/End, hit, wrap, pan, tail, selection, query and resize
\* events came before.
C22_ScrollClamped ==
  ui.sid # "" => 0 <= ui.y /\ ui.y <= MaxScroll(ui)

\* a frame drawn after a page-down that would have left the range
C22_Witness ==
  /\ ui.sid = "s1" /\ ui.key = "KEY_NPAGE"
  /\ ui.y = MaxScroll(ui) /\ ui.y > 0 /\ ui.h = 2


\* the preview state apart from the record of the key read last
SameButKey(p, q) == [p EXCEPT !.key = ""] = [q EXCEPT !.key = ""]

\* the horizontal offset is never negative, and in wrap mode it is 0 and the
\* render buffer is the one built for offset 0
PanIgnoredInWrap(p) ==
  /\ p.x >= 0
  /\ p.wrap => p.x = 0
  /\ p.wrap /\ p.sid # "" =>
       p.render_lines = _preview_build_render_lines(p.raw_lines, p.w, TRUE, 0).rendered

\* C23: the horizontal offset of the preview is >= 0 in every state, and while
\* wrap mode is active it has no effect: pan-left and pan-right change nothing,
\* the offset is 0, and the render buffer is the same as for offset 0.
C23_PanIgnoredInWrap ==
  /\ [] PanIgnoredInWrap(ui)
  /\ [][ui.wrap /\ ui'.key \in {"KEY_LEFT", "KEY_RIGHT"} => SameButKey(ui', ui)]_vars

\* pan-right pressed in the focused preview of the long document in wrap mode
C23_Witness ==
  /\ ui.wrap /\ ui.key = "KEY_RIGHT" /\ ui.focus = "preview"
  /\ ui.sid = "s1" /\ ui.x = 0 /\ Len(ui.render_lines) > Len(ui.raw_lines)


\* the frame's render line of the best-ranked match of the terms in the selected
\* document, or None when no line matches
BestMatchLine(p) ==
  LET raw == PaneContent(p.sid)
      m == _preview_find_matches(raw, p.terms)
      r == _preview_build_render_lines(raw, p.w, p.wrap, p.x)
  IN IF m = <<>> THEN None ELSE r.raw_to_render[m[1][1] + 1]

\* the offset the claim gives a frame that follows a change of document or terms
ClaimedJump(p) ==
  /\ p.terms # <<>> /\ BestMatchLine(p) # None =>
       p.y = Max(0, Min(BestMatchLine(p) - 2, MaxScroll(p)))
  /\ p.terms = <<>> /\ p.tail => p.y = MaxScroll(p)

SelectionOrTermsChanged(p, q) == q.sid # p.sid \/ q.terms # p.terms

\* C30: whenever the selected document or the terms of the query change, the
\* next frame puts the vertical offset at the first render line of the best
\* match minus 2, clamped to the scroll range; with no term it puts it at the
\* tail, max(0, render lines - viewport height), unless tail mode is off.
C30_JumpOnChange ==
  [][ui'.sid # "" /\ SelectionOrTermsChanged(ui, ui') => ClaimedJump(ui')]_vars

\* the same for a change from one shown document to another, or of the terms of a
\* shown document: the cases in which the cached session or terms differ
C30_JumpBetweenDocuments ==
  [][ui'.sid # "" /\ ui.sid # "" /\ SelectionOrTermsChanged(ui, ui') => ClaimedJump(ui')]_vars


---------------------------------------------------------------------------
(* Claims about the session_meta fields and the times of a document, under *)
(* SpecParse.                                                              *)

\* the places of the session_meta records of a file
MetaPlaces(ls) == {j \in 1..Len(ls) : IsMeta(ls[j])}

\* the places of the session_meta records that provide the payload field
Providers(ls, field) == {j \in MetaPlaces(ls) : IsStrA(ls[j].payload[field])}

\* the value of the field in the first record that provides it
FirstProvided(ls, field) ==
  LET first == CHOOSE j \in Providers(ls, field) : \A i \in Providers(ls, field) : j <= i
  IN ls[first].payload[field]

\* C32: when a file holds several session_meta records, session_id,
\* created_at, cwd and cli_version are each taken from the first record that
\* provides the field; a later record sets a field only when no earlier one
\* provided it, and never overwrites or clears a field already set.
C32_FirstSessionMetaWins ==
  (Returned /\ out.kind = "doc") =>
    /\ out.session_id = FirstProvided(lines, "id")
    /\ Providers(lines, "cwd") # {} => out.cwd = FirstProvided(lines, "cwd")
    /\ Providers(lines, "cli_version") # {} => out.cli_version = FirstProvided(lines, "cli_version")
    /\ (/\ Providers(lines, "timestamp") # {}
        /\ _epoch_seconds_from_iso(FirstProvided(lines, "timestamp")) # None) =>
         out.created_at = _epoch_seconds_from_iso(FirstProvided(lines, "timestamp"))

\* the record timestamps of a file that parse
RecordTimes(ls) ==
  {_epoch_seconds_from_iso(ls[j].timestamp) :
     j \in {i \in 1..Len(ls) : /\ ls[i].kind = "object" /\ IsStrA(ls[i].timestamp)
                               /\ _epoch_seconds_from_iso(ls[i].timestamp) # None}}

\* the time the claim gives created_at, for a file with one session_meta record
ClaimedCreatedAt(ls, mt) ==
  LET meta == ls[CHOOSE j \in MetaPlaces(ls) : TRUE]
      t == IF IsStrA(meta.payload.timestamp)
           THEN _epoch_seconds_from_iso(meta.payload.timestamp) ELSE None
  IN IF t # None THEN t ELSE mt

\* C33: updated_at of the returned document is the maximum record timestamp
\* of the file, or created_at when no record has a timestamp that parses;
\* created_at is the timestamp of the session_meta payload, or the file's
\* modification time when that timestamp is missing or does not parse.
C33_DocumentTimes ==
  (Returned /\ out.kind = "doc" /\ Cardinality(MetaPlaces(lines)) = 1) =>
    /\ out.created_at = ClaimedCreatedAt(lines, mtime)
    /\ out.updated_at = IF RecordTimes(lines) # {}
                        THEN CHOOSE t \in RecordTimes(lines) : \A u \in RecordTimes(lines) : t >= u
                        ELSE out.created_at

\* the same with created_at falling back to the latest record timestamp, when
\* there is one after the epoch, before the modification time
C33_CreatedFromRecordTimes ==
  (Returned /\ out.kind = "doc" /\ Cardinality(MetaPlaces(lines)) = 1) =>
    LET latest == IF RecordTimes(lines) # {}
                  THEN CHOOSE t \in RecordTimes(lines) : \A u \in RecordTimes(lines) : t >= u
                  ELSE None
        payload == ClaimedCreatedAt(lines, None)
    IN /\ out.created_at = IF payload # None THEN payload
                           ELSE IF latest \notin {None, 0} THEN latest ELSE mtime
       /\ out.updated_at = IF latest # None THEN latest ELSE out.created_at


---------------------------------------------------------------------------
(* Claims about the committed store, under SpecIndex. *)

\* the store a new connection reads is consistent: every session row has one
\* full-text entry and an annotation row, every full-text entry a session row
StoreConsistent(store) ==
  \A sid \in Sids :
    /\ store.sessions[sid].present =>
         /\ Len(store.session_fts[sid]) = 1
         /\ store.user_sessions[sid].present
    /\ Len(store.session_fts[sid]) > 0 => store.sessions[sid].present

\* the files of the run that stored a document, in the run's own connection
StoredInRun ==
  {p \in parsed : fs[p].exists /\ parse_codex_session_file(p, fs[p]).kind = "doc"}

\* C34: the session row, the default annotation, the full-text entry and the
\* file record of a document are committed together or not at all: in every
\* committed state of the store, also after an interrupted run and after an
\* annotation edit, each session row has exactly one full-text entry and
\* exactly one annotation row, no full-text entry is without its session
\* row, and a file record is committed only with the session row of its file.
C34_WritesAtomic ==
  /\ StoreConsistent(committed)
  /\ ipc # "running" => tx = committed
  /\ \A p \in PathSet :
       committed.files[p].present =>
         \E sid \in Sids : /\ committed.sessions[sid].present
                           /\ Len(committed.session_fts[sid]) = 1

\* a run that had stored the document of a session the store did not have
\* was interrupted: nothing of the document is committed
C34_Witness ==
  /\ ipc \in {"killed", "raised"}
  /\ ix.changed > 0
  /\ \E p \in StoredInRun :
       LET sid == parse_codex_session_file(p, fs[p]).session_id
       IN /\ ~committed.sessions[sid].present
          /\ ~committed.user_sessions[sid].present
          /\ committed.session_fts[sid] = <<>>
          /\ ~committed.files[p].present
  /\ \E sid \in Sids : committed.sessions[sid].present

\* the next run without force would parse every file that is there
NextRunParsesEveryFile ==
  \/ committed.meta.parser_version # running_version
  \/ \A p \in PathSet : fs[p].exists => ~FingerprintMatches(committed, p, fs[p])

\* C36: when a run started because of a parser version mismatch is
\* interrupted before it finishes, the next run still parses every file again.
C36_InterruptedBumpRepeated ==
  (ipc \in {"killed", "raised"} /\ ix.force_reindex /\ ~ix.force) =>
    NextRunParsesEveryFile

\* C38: index_sessions never removes a session. Over every step of a run, a
\* session that is committed stays committed with its full-text entry, a
\* session the run's connection reads stays there until a rollback, and a
\* session row or full-text entry changes only when the run stores a document
\* of that session: a session whose file is gone or yields no document keeps
\* the row and the content of its last parse.
C38_SessionsNeverRemoved ==
  [][ IndexStep =>
        \A sid \in Sids :
          /\ committed.sessions[sid].present =>
               /\ committed'.sessions[sid].present
               /\ Len(committed'.session_fts[sid]) = 1
          /\ (ipc = "running" /\ ipc' = "running" /\ tx.sessions[sid].present) =>
               /\ tx'.sessions[sid].present
               /\ Len(tx'.session_fts[sid]) = 1
          /\ (ipc = "running" /\ ipc' = "running"
                /\ <<tx'.sessions[sid], tx'.session_fts[sid]>>
                     # <<tx.sessions[sid], tx.session_fts[sid]>>) =>
               /\ ToParse
               /\ parse_codex_session_file(Current, fs[Current]).kind = "doc"
               /\ parse_codex_session_file(Current, fs[Current]).session_id = sid
    ]_vars

\* a run has finished that found the log file of a committed session gone,
\* and the session is still there with its full-text entry
C38_Witness ==
  /\ ipc = "done"
  /\ vanished # {}
  /\ \E sid \in Sids :
       /\ committed.sessions[sid].present
       /\ committed.sessions[sid].file_path \in vanished
       /\ ~fs[committed.sessions[sid].file_path].exists
       /\ Len(committed.session_fts[sid]) = 1


---------------------------------------------------------------------------
(* Claims about the browser and its store, under SpecHotkeys. *)

\* the session u.rows has a row of
Listed(u, sid) == \E i \in 1..Len(u.rows) : u.rows[i].session_id = sid

\* C37: after a pin toggle on the selected row the selection designates the
\* same session whenever that session is still in the recomputed rows.
C37_SelectionFollowsPin ==
  [][(IsPinToggle(ui, ui') /\ Listed(ui', _selected_id(ui))) =>
       _selected_id(ui') = _selected_id(ui)]_vars

\* the action hotkeys and the values they make the browser return
ActionHotkeys ==
  {"x", "t", "m", "f", "d", "F", "P", "g", "R", "y", "c", "o", "K", "S", "v", "n", "N"}

\* C40: while the focus is the query no action hotkey acts: a key writes no
\* annotation, changes no filter and no toggle, runs no reindex, and the
\* browser returns nothing but quit (None) and the resume of the selected
\* session on Enter; an action hotkey is typed into the query.
C40_NoHotkeyInQueryFocus ==
  [][ui.focus = "query" =>
       /\ ui'.db = ui.db
       /\ ui'.filter = ui.filter
       /\ ui'.pinned_only = ui.pinned_only
       /\ ui'.group_mode = ui.group_mode
       /\ ui'.index_runs = 0
       /\ ui'.answer = NoAnswer
       /\ bret' \in {Running, "None"} \cup {"__RESUME__ " \o sid : sid \in SearchSids}
       /\ bret' \notin {Running, "None"} => ui'.key \in EnterKeys
       /\ bret' = "None" => ui'.key = "q"
       /\ ui'.key \in ActionHotkeys =>
            /\ ui'.query = InsertAt(ui.query, ui.cursor, ui'.key)
            /\ bret' = Running]_vars

\* the pin key was typed with the focus on the query while a row was
\* selected: it is in the query and no session is pinned more than before
C40_Witness ==
  /\ ui.key = "x" /\ ui.focus = "query" /\ bret = Running
  /\ ui.query \in {<<"x">>, <<"a", "x">>}
  /\ ui.fetches = 1 /\ ui.index_runs = 0
  /\ \E db \in BrowserStores : ui.db = db /\ \E sid \in SearchSids : db.sessions[sid].present

\* the connections to the store that were open at once while the last key
\* was handled: the one _run_curses_live opens at line 1126 and closes at line
\* 1826, and the one that list_sessions or search_sessions (lines 566, 622),
\* called by _fetch_rows, or index_sessions (line 400) opens and closes
OpenConnections(u) ==
  1 + (IF u.fetches > 0 \/ u.index_runs > 0 THEN 1 ELSE 0)

\* C35: never are two connections to the store open at the same time.
C35_OneConnection == OpenConnections(ui) <= 1


---------------------------------------------------------------------------
(* Claim about the order of the grouped rows, under SpecGroup. *)

\* where the row of a session is in a list that has one
PositionOf(rows, sid) == CHOOSE i \in 1..Len(rows) : rows[i].session_id = sid

\* the rows of grouped are rows of sessions of ungrouped, in the same
\* relative order
SameRelativeOrder(grouped, ungrouped) ==
  /\ \A i \in 1..Len(grouped) :
       \E k \in 1..Len(ungrouped) : ungrouped[k].session_id = grouped[i].session_id
  /\ \A i, j \in 1..Len(grouped) :
       i < j => PositionOf(ungrouped, grouped[i].session_id)
                  < PositionOf(ungrouped, grouped[j].session_id)

\* a list search_sessions can return: the pinned rows first, the rows of equal
\* pin status in the order of their scores, which is any order as the
\* relevance of a row is the engine's
InSearchOrder(rows) ==
  \A i, j \in 1..Len(rows) : i < j => rows[i].pinned >= rows[j].pinned

\* a list list_sessions can return: the pinned rows first, then latest first
InBrowseOrder(rows) ==
  \A i, j \in 1..Len(rows) :
    i < j => \/ rows[i].pinned > rows[j].pinned
             \/ rows[i].pinned = rows[j].pinned /\ rows[i].updated_at >= rows[j].updated_at

\* C39: grouping does not reorder the rows that remain: the rows
\* _group_rows returns for a list in search order or in browse order are in
\* the relative order they have in that list.
C39_GroupingKeepsOrder ==
  (cpc = "return" /\ InSearchOrder(cargs.rows)) => SameRelativeOrder(ret, cargs.rows)

\* the same for the lists in browse order alone
C39_GroupingKeepsBrowseOrder ==
  (cpc = "return" /\ InBrowseOrder(cargs.rows)) => SameRelativeOrder(ret, cargs.rows)


---------------------------------------------------------------------------
(* Claim about the cached state of the preview, under SpecPaneReindex. *)

\* the cached state of the preview is that of the content the store holds
\* for the selected session, laid out for the frame on screen
PreviewCoherent(p) ==
  LET raw == StoredContent(p.sid, p.edition)
      laid == _preview_build_render_lines(raw, Max(1, p.w), p.wrap, p.x)
  IN /\ p.raw_lines = raw
     /\ p.render_lines = laid.rendered
     /\ p.raw_to_render = laid.raw_to_render

\* C31: at every frame with a selected document the raw lines are the line
\* split of the content the store holds for it, and the render buffer and the
\* raw-to-render map are what _preview_build_render_lines returns for these
\* lines with the width, the wrap mode and the horizontal offset of the frame,
\* also after a forced reindex.
C31_PreviewCoherent == ui.sid # "" => PreviewCoherent(ui)

\* the same up to the first forced reindex that changes the stored content
C31_CoherentBeforeReindex == (ui.sid # "" /\ ui.edition = 0) => PreviewCoherent(ui)

====
